---- MODULE Spec2Model ----
(***************************************************************************)
(* Task lifecycle and workflow orchestration of CMAT.                      *)
(*                                                                         *)
(* The Task model (core/models/task.py), the workflow models and the       *)
(* WorkflowService (core/services/workflow_service.py) are translated from *)
(* their source.  The QueueService (the Task Store) and the TaskService    *)
(* (the Execution Boundary) are called by that source but their code is    *)
(* not part of the tree; they are modelled from the design document and    *)
(* carry the prefix QueueService_ / TaskService_.                          *)
(***************************************************************************)
EXTENDS Integers, Sequences, FiniteSets, TLC

VARIABLES
    tasks,          \* Task Store document: the list of task records
    agent_status,   \* Task Store document: per-agent side record
    last,           \* the last Task Store operation a caller made and what it returned
    templates,      \* Workflow Template Store document: workflow id -> template
    agents,         \* agent registry: the agent names AgentService.get resolves
    stack,          \* call stack of the orchestrator (run_task / auto_chain frames)
    callers,        \* concurrent callers of a store: each one's position and local copy
    arg,            \* what a run starts from: a function's argument, a document
    ret             \* what the function returned for it

storeVars == <<tasks, agent_status>>
orchVars == <<templates, agents, stack>>
auxVars == <<callers, arg, ret>>
vars == <<tasks, agent_status, last, templates, agents, stack, callers, arg, ret>>

----------------------------------------------------------------------------
(* Bounds of the model *)

MaxTasks == 2

(* Encodings of Python's None *)
NULL == "None"
NoTime == NULL
NoStep == -1

Agents == {"architect", "implementer"}
Statuses == {"READY_FOR_DEVELOPMENT", "BLOCKED: missing schema"}
Reasons == {"Execution failed with exit code 1"}
CancelReasons == {NULL, "operator"}
\* what get_datetime_utc() may return while the store is driven, and a later instant
Times == {"2025-01-01T00:00:00"}
LaterTimes == Times \cup {"2025-01-02T00:00:00"}
\* the ids a caller passes: those the store can hold (absent until added)
TaskIds == 1..MaxTasks

TaskStatus == {"pending", "active", "completed", "failed", "blocked", "cancelled"}

----------------------------------------------------------------------------
(* core/models/task.py *)

NoMetadata ==
    [workflow_name |-> NULL, workflow_step |-> NoStep,
     enhancement_title |-> NULL, requested_model |-> NULL,
     log_file_path |-> NULL]

\* Task(...) as the dataclass builds it: status, started, completed and result
\* take their defaults.
Task_created_active(id, assigned_agent, auto_chain, metadata) ==
    [id |-> id, assigned_agent |-> assigned_agent, status |-> "active",
     started |-> NoTime, completed |-> NoTime, result |-> NULL,
     auto_chain |-> auto_chain, metadata |-> metadata]

Task(id, assigned_agent, auto_chain, metadata) ==
    [id |-> id, assigned_agent |-> assigned_agent, status |-> "pending",
     started |-> NoTime, completed |-> NoTime, result |-> NULL,
     auto_chain |-> auto_chain, metadata |-> metadata]

\* A method either returns (with the mutated task) or raises ValueError
\* (leaving the task as it was).
Returned(t) == [raised |-> FALSE, task |-> t]
Raised(t) == [raised |-> TRUE, task |-> t]

Task_start(t, now) ==
    IF t.status # "pending"
    THEN Raised(t)
    ELSE Returned([t EXCEPT !.status = "active", !.started = now])

Task_complete_drops_result(t, result, now) ==
    IF t.status # "active"
    THEN [raised |-> TRUE, task |-> t]
    ELSE [raised |-> FALSE,
          task |-> [t EXCEPT !.status = "completed", !.completed = now]]

Task_complete(t, result, now) ==
    IF t.status # "active"
    THEN Raised(t)
    ELSE Returned([t EXCEPT !.status = "completed", !.completed = now,
                            !.result = result])

Task_fail_drops_reason(t, reason, now) ==
    [raised |-> FALSE, task |-> [t EXCEPT !.status = "failed", !.completed = now]]

Task_fail(t, reason, now) ==
    Returned([t EXCEPT !.status = "failed", !.completed = now, !.result = reason])

Task_block(t, reason) ==
    Returned([t EXCEPT !.status = "blocked", !.result = reason])

Task_cancel_marks_failed(t, reason, now) ==
    IF t.status = "completed"
    THEN [raised |-> TRUE, task |-> t]
    ELSE [raised |-> FALSE,
          task |-> [t EXCEPT !.status = "failed", !.completed = now,
                             !.result = reason]]

Task_cancel_rejects_active(t, reason, now) ==
    IF t.status = "active"
    THEN [raised |-> TRUE, task |-> t]
    ELSE [raised |-> FALSE,
          task |-> [t EXCEPT !.status = "cancelled", !.completed = now,
                             !.result = reason]]

Task_cancel_keeps_status(t, reason, now) ==
    IF t.status = "completed"
    THEN [raised |-> TRUE, task |-> t]
    ELSE [raised |-> FALSE,
          task |-> [t EXCEPT !.completed = now, !.result = reason]]

Task_cancel(t, reason, now) ==
    IF t.status = "completed"
    THEN Raised(t)
    ELSE Returned([t EXCEPT !.status = "cancelled", !.completed = now,
                            !.result = reason])

----------------------------------------------------------------------------
(* The Task Store (QueueService), modelled from the design document, 4.1.  *)
(* Every operation is one read-modify-write of the document q =            *)
(* [tasks, agent_status]; it yields the new document and what it returned. *)

RECURSIVE IndexOfFrom(_, _, _)
IndexOfFrom(ts, id, i) ==
    IF i > Len(ts) THEN 0
    ELSE IF ts[i].id = id THEN i
    ELSE IndexOfFrom(ts, id, i + 1)

\* position of the first task with this id, 0 when there is none
IndexOf(ts, id) == IndexOfFrom(ts, id, 1)

IdsOf(ts) == {ts[i].id : i \in 1..Len(ts)}

Idle == [status |-> "idle", current_task |-> 0]

SetAgentStatus(as, agent, status, current) ==
    [a \in (DOMAIN as) \cup {agent} |->
        IF a = agent THEN [status |-> status, current_task |-> current] ELSE as[a]]

Doc(ts, as) == [tasks |-> ts, agent_status |-> as]

\* the operation found nothing to act on: document untouched, returns None
NotFound(q) == [tasks |-> q.tasks, agent_status |-> q.agent_status, ok |-> FALSE]

Done(ts, as) == [tasks |-> ts, agent_status |-> as, ok |-> TRUE]

RECURSIVE MaxId(_)
MaxId(ts) ==
    IF ts = <<>> THEN 0
    ELSE LET m == MaxId(Tail(ts)) IN IF Head(ts).id > m THEN Head(ts).id ELSE m

\* a freshly generated id, unique within the store
QueueService_generate_id(ts) == MaxId(ts) + 1

QueueService_add(q, assigned_agent, auto_chain, metadata) ==
    LET t == Task(QueueService_generate_id(q.tasks), assigned_agent, auto_chain, metadata)
    IN  Done(Append(q.tasks, t), q.agent_status)

QueueService_start(q, id, now) ==
    LET i == IndexOf(q.tasks, id) IN
    IF i = 0 \/ q.tasks[i].status # "pending" THEN NotFound(q)
    ELSE LET r == Task_start(q.tasks[i], now) IN
         IF r.raised THEN NotFound(q)
         ELSE Done([q.tasks EXCEPT ![i] = r.task],
                   SetAgentStatus(q.agent_status, r.task.assigned_agent, "active", id))

QueueService_complete(q, id, result, now) ==
    LET i == IndexOf(q.tasks, id) IN
    IF i = 0 \/ q.tasks[i].status # "active" THEN NotFound(q)
    ELSE LET r == Task_complete(q.tasks[i], result, now) IN
         IF r.raised THEN NotFound(q)
         ELSE Done([q.tasks EXCEPT ![i] = r.task],
                   SetAgentStatus(q.agent_status, r.task.assigned_agent, "idle", 0))

QueueService_fail(q, id, reason, now) ==
    LET i == IndexOf(q.tasks, id) IN
    IF i = 0 \/ q.tasks[i].status # "active" THEN NotFound(q)
    ELSE LET r == Task_fail(q.tasks[i], reason, now) IN
         IF r.raised THEN NotFound(q)
         ELSE Done([q.tasks EXCEPT ![i] = r.task],
                   SetAgentStatus(q.agent_status, r.task.assigned_agent, "idle", 0))

\* Terminating the external process of an active task is best effort: whether a
\* handle is recorded and whether the signal arrives (kill) changes nothing.
KillOutcomes == {"no_handle", "signalled", "signal_failed"}

QueueService_cancel(q, id, reason, now, kill) ==
    LET i == IndexOf(q.tasks, id) IN
    IF i = 0 \/ q.tasks[i].status \notin {"pending", "active"} THEN NotFound(q)
    ELSE LET r == Task_cancel(q.tasks[i], reason, now) IN
         IF r.raised THEN NotFound(q)
         ELSE Done([q.tasks EXCEPT ![i] = r.task], q.agent_status)

QueueService_rerun_keeps_result(q, id) ==
    LET i == IndexOf(q.tasks, id) IN
    IF i = 0 \/ q.tasks[i].status \notin {"completed", "failed", "cancelled"}
    THEN NotFound(q)
    ELSE Done([q.tasks EXCEPT ![i] = [@ EXCEPT !.status = "pending",
                                               !.started = NoTime,
                                               !.completed = NoTime]],
              q.agent_status)

QueueService_rerun(q, id) ==
    LET i == IndexOf(q.tasks, id) IN
    IF i = 0 \/ q.tasks[i].status \notin {"completed", "failed", "cancelled"}
    THEN NotFound(q)
    ELSE Done([q.tasks EXCEPT ![i] = [@ EXCEPT !.status = "pending",
                                               !.started = NoTime,
                                               !.completed = NoTime,
                                               !.result = NULL]],
              q.agent_status)

QueueService_update_metadata_rebuilds_task(q, id, log_file_path) ==
    LET i == IndexOf(q.tasks, id) IN
    IF i = 0 THEN NotFound(q)
    ELSE Done([q.tasks EXCEPT ![i] =
                  [Task(q.tasks[i].id, q.tasks[i].assigned_agent,
                        q.tasks[i].auto_chain, q.tasks[i].metadata)
                   EXCEPT !.metadata.log_file_path = log_file_path]],
              q.agent_status)

\* a metadata patch: nested fields only
QueueService_update_metadata(q, id, log_file_path) ==
    LET i == IndexOf(q.tasks, id) IN
    IF i = 0 THEN NotFound(q)
    ELSE Done([q.tasks EXCEPT ![i].metadata.log_file_path = log_file_path],
              q.agent_status)

\* cancel_all: cancel, in store order, every task that is pending or active;
\* the count of the tasks cancelled is returned
RECURSIVE CancelFrom(_, _, _, _, _)
CancelFrom(q, i, reason, now, n) ==
    IF i > Len(q.tasks) THEN [tasks |-> q.tasks, agent_status |-> q.agent_status, count |-> n]
    ELSE IF q.tasks[i].status \in {"pending", "active"}
         THEN LET r == QueueService_cancel(q, q.tasks[i].id, reason, now, "no_handle")
              IN  CancelFrom(Doc(r.tasks, r.agent_status), i + 1, reason, now,
                             IF r.ok THEN n + 1 ELSE n)
         ELSE CancelFrom(q, i + 1, reason, now, n)

QueueService_cancel_all(q, reason, now) == CancelFrom(q, 1, reason, now, 0)

----------------------------------------------------------------------------
(* A caller of the Task Store: one action per operation *)

Q == Doc(tasks, agent_status)

Call(op, ok, count) == [op |-> op, ok |-> ok, count |-> count]

Called(op, r) ==
    /\ tasks' = r.tasks
    /\ agent_status' = r.agent_status
    /\ last' = Call(op, r.ok, 0)
    /\ UNCHANGED <<orchVars, auxVars>>

\* the add(...) calls a direct caller makes
AddRequests ==
    {[assigned_agent |-> "architect", auto_chain |-> FALSE],
     [assigned_agent |-> "implementer", auto_chain |-> TRUE]}

Add ==
    /\ Len(tasks) < MaxTasks
    /\ \E req \in AddRequests :
          Called("add", QueueService_add(Q, req.assigned_agent, req.auto_chain, NoMetadata))

Start ==
    \E id \in TaskIds, now \in Times :
        Called("start", QueueService_start(Q, id, now))

Complete ==
    \E id \in TaskIds, s \in Statuses, now \in Times :
        Called("complete", QueueService_complete(Q, id, s, now))

Fail ==
    \E id \in TaskIds, r \in Reasons, now \in Times :
        Called("fail", QueueService_fail(Q, id, r, now))

\* the cancel(...) calls a direct caller makes: reason and what the kill does
CancelRequests ==
    {[reason |-> NULL, kill |-> "no_handle"],
     [reason |-> "operator", kill |-> "signalled"],
     [reason |-> "operator", kill |-> "signal_failed"]}

Cancel ==
    \E id \in TaskIds, req \in CancelRequests, now \in Times :
        Called("cancel", QueueService_cancel(Q, id, req.reason, now, req.kill))

Rerun ==
    \E id \in TaskIds :
        Called("rerun", QueueService_rerun(Q, id))

CancelAll ==
    \E r \in CancelReasons, now \in Times :
        LET res == QueueService_cancel_all(Q, r, now) IN
        /\ tasks' = res.tasks
        /\ agent_status' = res.agent_status
        /\ last' = Call("cancel_all", TRUE, res.count)
        /\ UNCHANGED <<orchVars, auxVars>>

NoCall == Call("none", TRUE, 0)

\* no concurrent caller, no function applied
NoAux ==
    /\ callers = <<>>
    /\ arg = NULL
    /\ ret = NULL

EmptyDoc == [w \in {} |-> 0]

InitStore ==
    /\ tasks = <<>>
    /\ agent_status = [a \in {} |-> Idle]
    /\ last = NoCall
    /\ templates = EmptyDoc
    /\ agents = {}
    /\ stack = <<>>
    /\ NoAux

NextStore ==
    \/ Add
    \/ Start
    \/ Complete
    \/ Fail
    \/ Cancel
    \/ Rerun
    \/ CancelAll

SpecStore == InitStore /\ [][NextStore]_vars

----------------------------------------------------------------------------
(* Properties of the Task Store.  An operation's contract is stated over   *)
(* every call a caller could make in a reachable state: every id (held or  *)
(* not), every argument, and any instant, also one later than every stamp  *)
(* in the store.                                                           *)

AnyIds == 1..(MaxTasks + 1)

Held(i) == i \in 1..Len(tasks)

StatusOf(id) == tasks[IndexOf(tasks, id)].status

\* the document as it would read had task i been stored with status s; the
\* only way a blocked task is met, since no store operation sets blocked
Restated(i, s) == [Q EXCEPT !.tasks[i].status = s]

LegalEdges ==
    {<<"pending", "active">>, <<"active", "completed">>, <<"active", "failed">>,
     <<"pending", "cancelled">>, <<"active", "cancelled">>,
     <<"completed", "pending">>, <<"failed", "pending">>, <<"cancelled", "pending">>}

TransitionOps == {"start", "complete", "fail", "cancel", "rerun"}

Target(op) ==
    CASE op = "start" -> "active"
      [] op = "complete" -> "completed"
      [] op = "fail" -> "failed"
      [] op = "cancel" -> "cancelled"
      [] op = "rerun" -> "pending"

Attempt(op, id, now) ==
    CASE op = "start" -> QueueService_start(Q, id, now)
      [] op = "complete" -> QueueService_complete(Q, id, "READY_FOR_DEVELOPMENT", now)
      [] op = "fail" -> QueueService_fail(Q, id, "Execution failed with exit code 1", now)
      [] op = "cancel" -> QueueService_cancel(Q, id, NULL, now, "no_handle")
      [] op = "rerun" -> QueueService_rerun(Q, id)

C1_StepAlongLegalEdge ==
    /\ Len(tasks') >= Len(tasks)
    /\ \A i \in 1..Len(tasks) :
          \/ tasks'[i].status = tasks[i].status
          \/ <<tasks[i].status, tasks'[i].status>> \in LegalEdges
    /\ ~last'.ok => \A i \in 1..Len(tasks) : tasks'[i].status = tasks[i].status

C1_IllegalAttemptRejected ==
    \A op \in TransitionOps, id \in IdsOf(tasks), now \in LaterTimes :
        <<StatusOf(id), Target(op)>> \notin LegalEdges
        => LET r == Attempt(op, id, now) IN ~r.ok /\ r.tasks = tasks

\* C1: under every sequence of Task Store operations a task's status moves
\* only along pending->active, active->completed, active->failed,
\* pending->cancelled, active->cancelled and completed/failed/cancelled->pending;
\* an attempt along any other edge is rejected and changes no status.
C1_OnlyLegalTransitions ==
    [](C1_IllegalAttemptRejected) /\ [][C1_StepAlongLegalEdge]_vars

\* start was attempted on a task that had run to completion, and was rejected
C1_Witness ==
    /\ last.op = "start" /\ ~last.ok
    /\ Len(tasks) = MaxTasks
    /\ \A i \in 1..Len(tasks) : tasks[i].status \in {"completed", "cancelled"}

\* C4: fail(id, reason) on an active task sets failed, stamps completed and
\* stores the reason in result; on a task in any other status, blocked
\* included (or an id the store does not hold), it is rejected and the task
\* is unchanged.
C4_FailRequiresActive ==
    /\ \A id \in AnyIds, reason \in Reasons, now \in LaterTimes :
        LET i == IndexOf(tasks, id)
            r == QueueService_fail(Q, id, reason, now)
        IN  IF i # 0 /\ tasks[i].status = "active"
            THEN /\ r.ok
                 /\ r.tasks = [tasks EXCEPT ![i].status = "failed",
                                            ![i].completed = now,
                                            ![i].result = reason]
            ELSE ~r.ok /\ r.tasks = tasks
    /\ \A i \in 1..Len(tasks), s \in TaskStatus \ {"active"},
          reason \in Reasons, now \in LaterTimes :
        LET q == Restated(i, s)
            r == QueueService_fail(q, tasks[i].id, reason, now)
        IN  ~r.ok /\ r.tasks = q.tasks

\* a fail was accepted on the first task; a later fail, on that failed task
\* or on the pending one, was rejected
C4_Witness ==
    /\ last.op = "fail" /\ ~last.ok
    /\ Len(tasks) = MaxTasks
    /\ tasks[1].status = "failed" /\ tasks[1].result \in Reasons
    /\ tasks[1].completed # NoTime
    /\ \A i \in 2..Len(tasks) : tasks[i].status = "pending"

\* C5: cancel(id, reason) on a pending or active task sets cancelled, whatever
\* becomes of the external process handle; on a completed, failed, cancelled
\* or blocked task it is rejected and the task is unchanged.
C5_CancelRequiresPendingOrActive ==
    /\ \A id \in AnyIds, reason \in CancelReasons, now \in LaterTimes, kill \in KillOutcomes :
        LET i == IndexOf(tasks, id)
            r == QueueService_cancel(Q, id, reason, now, kill)
        IN  IF i # 0 /\ tasks[i].status \in {"pending", "active"}
            THEN /\ r.ok
                 /\ r.tasks = [tasks EXCEPT ![i].status = "cancelled",
                                            ![i].completed = now,
                                            ![i].result = reason]
            ELSE ~r.ok /\ r.tasks = tasks
    /\ \A i \in 1..Len(tasks), s \in TaskStatus \ {"pending", "active"},
          reason \in CancelReasons, now \in LaterTimes, kill \in KillOutcomes :
        LET q == Restated(i, s)
            r == QueueService_cancel(q, tasks[i].id, reason, now, kill)
        IN  ~r.ok /\ r.tasks = q.tasks

\* an active task was cancelled; a later cancel, on it or on a task that had
\* completed or failed, was rejected
C5_Witness ==
    /\ last.op = "cancel" /\ ~last.ok
    /\ Len(tasks) = MaxTasks
    /\ tasks[1].status = "cancelled" /\ tasks[1].started # NoTime
    /\ \A i \in 2..Len(tasks) : tasks[i].status \in {"completed", "failed"}

\* C7: complete(id, result) on an active task sets completed, stamps completed
\* and stores exactly the given result; on a task in any other status it is
\* rejected and the task is unchanged.
C7_CompleteRequiresActive ==
    \A id \in AnyIds, result \in Statuses, now \in LaterTimes :
        LET i == IndexOf(tasks, id)
            r == QueueService_complete(Q, id, result, now)
        IN  IF i # 0 /\ tasks[i].status = "active"
            THEN /\ r.ok
                 /\ r.tasks = [tasks EXCEPT ![i].status = "completed",
                                            ![i].completed = now,
                                            ![i].result = result]
            ELSE ~r.ok /\ r.tasks = tasks

\* add -> start -> complete(T, "READY_FOR_DEVELOPMENT") for the architect
C7_Witness ==
    /\ last.op = "complete" /\ last.ok
    /\ Len(tasks) = 1
    /\ tasks[1].assigned_agent = "architect"
    /\ tasks[1].status = "completed"
    /\ tasks[1].result = "READY_FOR_DEVELOPMENT"
    /\ tasks[1].started # NoTime /\ tasks[1].completed # NoTime

\* C8: rerun(id) on a completed, failed or cancelled task resets it to pending
\* and clears started, completed and result, under the same id and without a
\* new task; on a pending or active task it is rejected, the task unchanged.
C8_RerunResetsTerminalTask ==
    \A id \in AnyIds :
        LET i == IndexOf(tasks, id)
            r == QueueService_rerun(Q, id)
        IN  IF i # 0 /\ tasks[i].status \in {"completed", "failed", "cancelled"}
            THEN /\ r.ok
                 /\ Len(r.tasks) = Len(tasks)
                 /\ r.tasks[i].id = id
                 /\ r.tasks = [tasks EXCEPT ![i].status = "pending",
                                            ![i].started = NoTime,
                                            ![i].completed = NoTime,
                                            ![i].result = NULL]
            ELSE ~r.ok /\ r.tasks = tasks

\* a failed task was rerun: it is pending again with nothing left of its run
C8_Witness ==
    /\ last.op = "rerun" /\ last.ok
    /\ Len(tasks) = MaxTasks
    /\ tasks[1].status = "pending" /\ tasks[1].id = 1
    /\ tasks[1].started = NoTime /\ tasks[1].completed = NoTime
    /\ tasks[1].result = NULL
    /\ \A i \in 2..Len(tasks) : tasks[i].status = "active"

Cancellable(ts) == {i \in 1..Len(ts) : ts[i].status \in {"pending", "active"}}

\* C9: cancel_all(reason) cancels exactly the pending and active tasks, leaves
\* the others as they are, returns how many it cancelled, and leaves no task
\* pending or active.
C9_CancelAllCancelsPendingAndActive ==
    \A reason \in CancelReasons, now \in LaterTimes :
        LET r == QueueService_cancel_all(Q, reason, now) IN
        /\ Len(r.tasks) = Len(tasks)
        /\ \A i \in 1..Len(tasks) :
              r.tasks[i] = IF i \in Cancellable(tasks)
                           THEN [tasks[i] EXCEPT !.status = "cancelled",
                                                 !.completed = now,
                                                 !.result = reason]
                           ELSE tasks[i]
        /\ r.count = Cardinality(Cancellable(tasks))
        /\ Cancellable(r.tasks) = {}

\* cancel_all met one completed task and cancelled the rest
C9_Witness ==
    /\ last.op = "cancel_all" /\ last.count = MaxTasks - 1
    /\ Len(tasks) = MaxTasks
    /\ tasks[1].status = "completed"
    /\ \A i \in 2..Len(tasks) : tasks[i].status = "cancelled"

C10_AddContract ==
    \A a \in Agents, ac \in BOOLEAN :
        LET r == QueueService_add(Q, a, ac, NoMetadata) IN
        /\ r.ok
        /\ Len(r.tasks) = Len(tasks) + 1
        /\ SubSeq(r.tasks, 1, Len(tasks)) = tasks
        /\ r.tasks[Len(r.tasks)].status = "pending"
        /\ r.tasks[Len(r.tasks)].id \notin IdsOf(tasks)

C10_IdsDistinct ==
    \A i, j \in 1..Len(tasks) : i # j => tasks[i].id # tasks[j].id

C10_IdsKept ==
    \A i \in 1..Len(tasks) : i <= Len(tasks') /\ tasks'[i].id = tasks[i].id

\* C10: add always succeeds and appends a pending task whose id no task of the
\* store has; the ids in the store are pairwise distinct and no operation
\* changes the id of a task.
C10_AddCreatesFreshPendingTask ==
    [](C10_AddContract /\ C10_IdsDistinct) /\ [][C10_IdsKept]_vars

\* a task was added to a store whose first task had already been run
C10_Witness ==
    /\ last.op = "add" /\ last.ok
    /\ Len(tasks) = MaxTasks
    /\ tasks[1].status \in {"completed", "failed", "cancelled"}
    /\ tasks[Len(tasks)].status = "pending"
    /\ tasks[Len(tasks)].id \notin {tasks[i].id : i \in 1..(Len(tasks) - 1)}

----------------------------------------------------------------------------
(* core/models/step_transition.py, workflow_step.py, workflow_template.py *)

MaxSteps == 2

\* description is left at its default, None
StepTransition(name, next_step, auto_chain, auto_start) ==
    [name |-> name, next_step |-> next_step, auto_chain |-> auto_chain,
     auto_start |-> auto_start, description |-> NULL]

WorkflowStep(agent, input, required_output, on_status, model) ==
    [agent |-> agent, input |-> input, required_output |-> required_output,
     on_status |-> on_status, model |-> model]

WorkflowTemplate(id, name, description, steps) ==
    [id |-> id, name |-> name, description |-> description, steps |-> steps]

is_halt_status(transition) ==
    ~transition.auto_chain \/ transition.next_step = NULL

\* WorkflowStep.get_transition: on_status.get(status_name)
HasTransition(step, status_name) == status_name \in DOMAIN step.on_status

get_transition(step, status_name) == step.on_status[status_name]

\* WorkflowTemplate.get_step: indexes are 0-based in the source
HasStep(template, index) == 0 <= index /\ index < Len(template.steps)

get_step(template, index) == template.steps[index + 1]

----------------------------------------------------------------------------
(* core/services/workflow_service.py: lookups *)

\* WorkflowService.get: the template stored under workflow_id, if any
HasWorkflow(tpls, workflow_id) == workflow_id \in DOMAIN tpls

WorkflowService_get(tpls, workflow_id) == tpls[workflow_id]

\* Python truthiness of an optional string
Truthy(s) == s # NULL /\ s # ""

RECURSIVE FirstStepOf(_, _, _)
FirstStepOf(steps, agent, i) ==
    IF i > Len(steps) THEN NoStep
    ELSE IF steps[i].agent = agent THEN i - 1
    ELSE FirstStepOf(steps, agent, i + 1)

get_next_step_takes_following_step(tpls, workflow_id, current_step_index, status) ==
    IF ~HasWorkflow(tpls, workflow_id) THEN NoStep
    ELSE LET template == WorkflowService_get(tpls, workflow_id) IN
         IF ~HasStep(template, current_step_index) THEN NoStep
         ELSE LET current_step == get_step(template, current_step_index) IN
              IF ~HasTransition(current_step, status) THEN NoStep
              ELSE IF HasStep(template, current_step_index + 1)
                   THEN current_step_index + 1
                   ELSE NoStep

get_next_step_restarts_when_null(tpls, workflow_id, current_step_index, status) ==
    IF ~HasWorkflow(tpls, workflow_id) THEN NoStep
    ELSE LET template == WorkflowService_get(tpls, workflow_id) IN
         IF ~HasStep(template, current_step_index) THEN NoStep
         ELSE LET current_step == get_step(template, current_step_index) IN
              IF ~HasTransition(current_step, status) THEN NoStep
              ELSE LET transition == get_transition(current_step, status) IN
                   IF ~Truthy(transition.next_step) THEN 0
                   ELSE FirstStepOf(template.steps, transition.next_step, 1)

\* index of the next step, NoStep when get_next_step returns None
get_next_step(tpls, workflow_id, current_step_index, status) ==
    IF ~HasWorkflow(tpls, workflow_id) THEN NoStep
    ELSE LET template == WorkflowService_get(tpls, workflow_id) IN
         IF ~HasStep(template, current_step_index) THEN NoStep
         ELSE LET current_step == get_step(template, current_step_index) IN
              IF ~HasTransition(current_step, status) THEN NoStep
              ELSE LET transition == get_transition(current_step, status) IN
                   IF ~Truthy(transition.next_step) THEN NoStep
                   ELSE FirstStepOf(template.steps, transition.next_step, 1)

should_auto_chain_ignores_flag(tpls, workflow_id, step_index, status) ==
    IF ~HasWorkflow(tpls, workflow_id) THEN FALSE
    ELSE LET template == WorkflowService_get(tpls, workflow_id) IN
         IF ~HasStep(template, step_index) THEN FALSE
         ELSE HasTransition(get_step(template, step_index), status)

should_auto_chain(tpls, workflow_id, step_index, status) ==
    IF ~HasWorkflow(tpls, workflow_id) THEN FALSE
    ELSE LET template == WorkflowService_get(tpls, workflow_id) IN
         IF ~HasStep(template, step_index) THEN FALSE
         ELSE LET step == get_step(template, step_index) IN
              IF ~HasTransition(step, status) THEN FALSE
              ELSE get_transition(step, status).auto_chain

----------------------------------------------------------------------------
(* The Execution Boundary (TaskService.execute), modelled from the design  *)
(* document: it returns success, the extracted status, the exit code and   *)
(* the log file of one run of the external process.                        *)

ExecResult(success, status, exit_code, log_file) ==
    [success |-> success, status |-> status, exit_code |-> exit_code,
     log_file |-> log_file]

NoResult == ExecResult(FALSE, NULL, 0, NULL)

TaskService_execute_results ==
    {ExecResult(TRUE, s, 0, "task.log") : s \in Statuses}
    \cup {ExecResult(TRUE, NULL, 0, "task.log"),
          ExecResult(FALSE, "READY_FOR_DEVELOPMENT", 1, "task.log"),
          ExecResult(FALSE, NULL, 1, NULL)}

----------------------------------------------------------------------------
(* core/services/workflow_service.py: orchestration.  The orchestrator is  *)
(* one thread; stack holds its run_task / auto_chain frames, innermost     *)
(* last.  A frame's pc is "begin", "executing" (inside the Execution        *)
(* Boundary), "finish", "run" (auto_chain about to call run_task),         *)
(* "called" (waiting for its callee) or "return".                          *)

Frame(fn, pc, task_id, auto_chain, result, next_id) ==
    [fn |-> fn, pc |-> pc, task_id |-> task_id, auto_chain |-> auto_chain,
     result |-> result, next_id |-> next_id]

Top == stack[Len(stack)]

SetTop(f) == [stack EXCEPT ![Len(stack)] = f]

Running(fn, pc) == stack # <<>> /\ Top.fn = fn /\ Top.pc = pc

Returns == SetTop([Top EXCEPT !.pc = "return"])

start_workflow_skips_agent_lookup(workflow_name, enhancement_name, auto_chain, execute, model) ==
    /\ stack = <<>>
    /\ tasks = <<>>
    /\ IF ~HasWorkflow(templates, workflow_name)
       THEN /\ last' = Call("start_workflow", FALSE, 0)
            /\ UNCHANGED <<tasks, agent_status, stack>>
       ELSE LET template == WorkflowService_get(templates, workflow_name) IN
            IF template.steps = <<>>
            THEN /\ last' = Call("start_workflow", FALSE, 0)
                 /\ UNCHANGED <<tasks, agent_status, stack>>
            ELSE LET first_step == template.steps[1] IN
                 IF FALSE
                 THEN /\ last' = Call("start_workflow", FALSE, 0)
                      /\ UNCHANGED <<tasks, agent_status, stack>>
                 ELSE LET effective_model == IF Truthy(model) THEN model
                                             ELSE first_step.model
                          r == QueueService_add(Q, first_step.agent, auto_chain,
                                   [workflow_name |-> workflow_name,
                                    workflow_step |-> 0,
                                    enhancement_title |-> enhancement_name,
                                    requested_model |-> effective_model,
                                    log_file_path |-> NULL])
                          id == r.tasks[Len(r.tasks)].id
                      IN  /\ tasks' = r.tasks
                          /\ agent_status' = r.agent_status
                          /\ last' = Call("start_workflow", TRUE, 0)
                          /\ stack' = IF execute
                                      THEN <<Frame("run_task", "begin", id, FALSE,
                                                   NoResult, 0)>>
                                      ELSE <<>>
    /\ UNCHANGED <<templates, agents, auxVars>>

start_workflow_always_runs(workflow_name, enhancement_name, auto_chain, execute, model) ==
    /\ stack = <<>>
    /\ tasks = <<>>
    /\ IF ~HasWorkflow(templates, workflow_name)
       THEN /\ last' = Call("start_workflow", FALSE, 0)
            /\ UNCHANGED <<tasks, agent_status, stack>>
       ELSE LET template == WorkflowService_get(templates, workflow_name) IN
            IF template.steps = <<>>
            THEN /\ last' = Call("start_workflow", FALSE, 0)
                 /\ UNCHANGED <<tasks, agent_status, stack>>
            ELSE LET first_step == template.steps[1] IN
                 IF first_step.agent \notin agents
                 THEN /\ last' = Call("start_workflow", FALSE, 0)
                      /\ UNCHANGED <<tasks, agent_status, stack>>
                 ELSE LET effective_model == IF Truthy(model) THEN model
                                             ELSE first_step.model
                          r == QueueService_add(Q, first_step.agent, auto_chain,
                                   [workflow_name |-> workflow_name,
                                    workflow_step |-> 0,
                                    enhancement_title |-> enhancement_name,
                                    requested_model |-> effective_model,
                                    log_file_path |-> NULL])
                          id == r.tasks[Len(r.tasks)].id
                      IN  /\ tasks' = r.tasks
                          /\ agent_status' = r.agent_status
                          /\ last' = Call("start_workflow", TRUE, 0)
                          /\ stack' = <<Frame("run_task", "begin", id, FALSE,
                                              NoResult, 0)>>
    /\ UNCHANGED <<templates, agents, auxVars>>

\* start_workflow, lines 533-588
start_workflow(workflow_name, enhancement_name, auto_chain, execute, model) ==
    /\ stack = <<>>
    /\ tasks = <<>>
    /\ IF ~HasWorkflow(templates, workflow_name)
       THEN /\ last' = Call("start_workflow", FALSE, 0)
            /\ UNCHANGED <<tasks, agent_status, stack>>
       ELSE LET template == WorkflowService_get(templates, workflow_name) IN
            IF template.steps = <<>>
            THEN /\ last' = Call("start_workflow", FALSE, 0)
                 /\ UNCHANGED <<tasks, agent_status, stack>>
            ELSE LET first_step == template.steps[1] IN
                 IF first_step.agent \notin agents
                 THEN /\ last' = Call("start_workflow", FALSE, 0)
                      /\ UNCHANGED <<tasks, agent_status, stack>>
                 ELSE LET effective_model == IF Truthy(model) THEN model
                                             ELSE first_step.model
                          r == QueueService_add(Q, first_step.agent, auto_chain,
                                   [workflow_name |-> workflow_name,
                                    workflow_step |-> 0,
                                    enhancement_title |-> enhancement_name,
                                    requested_model |-> effective_model,
                                    log_file_path |-> NULL])
                          id == r.tasks[Len(r.tasks)].id
                      IN  /\ tasks' = r.tasks
                          /\ agent_status' = r.agent_status
                          /\ last' = Call("start_workflow", TRUE, 0)
                          /\ stack' = IF execute
                                      THEN <<Frame("run_task", "begin", id, FALSE,
                                                   NoResult, 0)>>
                                      ELSE <<>>
    /\ UNCHANGED <<templates, agents, auxVars>>

run_task_begin_ignores_start(now) ==
    /\ Running("run_task", "begin")
    /\ LET i == IndexOf(tasks, Top.task_id) IN
       IF i = 0 \/ tasks[i].assigned_agent \notin agents
       THEN /\ stack' = Returns
            /\ last' = Call("run_task", FALSE, 0)
            /\ UNCHANGED <<tasks, agent_status>>
       ELSE LET r == QueueService_start(Q, Top.task_id, now) IN
            /\ tasks' = r.tasks
            /\ agent_status' = r.agent_status
            /\ stack' = SetTop([Top EXCEPT !.pc = "executing",
                                           !.auto_chain = tasks[i].auto_chain])
            /\ UNCHANGED last
    /\ UNCHANGED <<templates, agents, auxVars>>

\* run_task, lines 689-709: fetch the task and its agent, start the task
run_task_begin(now) ==
    /\ Running("run_task", "begin")
    /\ LET i == IndexOf(tasks, Top.task_id) IN
       IF i = 0 \/ tasks[i].assigned_agent \notin agents
       THEN /\ stack' = Returns
            /\ last' = Call("run_task", FALSE, 0)
            /\ UNCHANGED <<tasks, agent_status>>
       ELSE LET r == QueueService_start(Q, Top.task_id, now) IN
            IF ~r.ok
            THEN /\ stack' = Returns
                 /\ last' = Call("run_task", FALSE, 0)
                 /\ UNCHANGED <<tasks, agent_status>>
            ELSE /\ tasks' = r.tasks
                 /\ agent_status' = r.agent_status
                 /\ stack' = SetTop([Top EXCEPT !.pc = "executing",
                                                !.auto_chain = tasks[i].auto_chain])
                 /\ UNCHANGED last
    /\ UNCHANGED <<templates, agents, auxVars>>

\* run_task, lines 711-732: the Execution Boundary returns
run_task_execute(result) ==
    /\ Running("run_task", "executing")
    /\ stack' = SetTop([Top EXCEPT !.pc = "finish", !.result = result])
    /\ UNCHANGED <<tasks, agent_status, last, templates, agents, auxVars>>

run_task_finish_chains_before_complete(now) ==
    /\ Running("run_task", "finish")
    /\ LET result == Top.result IN
       IF result.success /\ Truthy(result.status)
       THEN /\ UNCHANGED <<tasks, agent_status>>
            /\ stack' = IF Top.auto_chain
                        THEN Append(SetTop([Top EXCEPT !.pc = "called"]),
                                    Frame("auto_chain", "begin", Top.task_id,
                                          FALSE, result, 0))
                        ELSE Returns
       ELSE LET q2 == QueueService_fail(Q, Top.task_id, "Execution failed with exit code 1", now)
            IN  /\ tasks' = q2.tasks
                /\ agent_status' = q2.agent_status
                /\ stack' = Returns
    /\ UNCHANGED <<last, templates, agents, auxVars>>

run_task_finish_always_chains(now) ==
    /\ Running("run_task", "finish")
    /\ LET result == Top.result
           q1 == IF Truthy(result.log_file)
                 THEN QueueService_update_metadata(Q, Top.task_id, result.log_file)
                 ELSE NotFound(Q)
           d1 == Doc(q1.tasks, q1.agent_status)
       IN  IF result.success /\ Truthy(result.status)
           THEN LET q2 == QueueService_complete(d1, Top.task_id, result.status, now) IN
                /\ tasks' = q2.tasks
                /\ agent_status' = q2.agent_status
                /\ stack' = Append(SetTop([Top EXCEPT !.pc = "called"]),
                                   Frame("auto_chain", "begin", Top.task_id,
                                         FALSE, result, 0))
           ELSE LET reason == IF Truthy(result.status) THEN result.status
                              ELSE "Execution failed with exit code 1"
                    q2 == QueueService_fail(d1, Top.task_id, reason, now)
                IN  /\ tasks' = q2.tasks
                    /\ agent_status' = q2.agent_status
                    /\ stack' = Returns
    /\ UNCHANGED <<last, templates, agents, auxVars>>

run_task_finish_chains_after_failure(now) ==
    /\ Running("run_task", "finish")
    /\ LET result == Top.result
           q1 == IF Truthy(result.log_file)
                 THEN QueueService_update_metadata(Q, Top.task_id, result.log_file)
                 ELSE NotFound(Q)
           d1 == Doc(q1.tasks, q1.agent_status)
           chain == IF Top.auto_chain /\ Truthy(result.status)
                    THEN Append(SetTop([Top EXCEPT !.pc = "called"]),
                                Frame("auto_chain", "begin", Top.task_id,
                                      FALSE, result, 0))
                    ELSE Returns
       IN  IF result.success /\ Truthy(result.status)
           THEN LET q2 == QueueService_complete(d1, Top.task_id, result.status, now) IN
                /\ tasks' = q2.tasks
                /\ agent_status' = q2.agent_status
                /\ stack' = chain
           ELSE LET reason == IF Truthy(result.status) THEN result.status
                              ELSE "Execution failed with exit code 1"
                    q2 == QueueService_fail(d1, Top.task_id, reason, now)
                IN  /\ tasks' = q2.tasks
                    /\ agent_status' = q2.agent_status
                    /\ stack' = chain
    /\ UNCHANGED <<last, templates, agents, auxVars>>

\* run_task, lines 734-749: record the log, complete or fail, chain
run_task_finish(now) ==
    /\ Running("run_task", "finish")
    /\ LET result == Top.result
           q1 == IF Truthy(result.log_file)
                 THEN QueueService_update_metadata(Q, Top.task_id, result.log_file)
                 ELSE NotFound(Q)
           d1 == Doc(q1.tasks, q1.agent_status)
       IN  IF result.success /\ Truthy(result.status)
           THEN LET q2 == QueueService_complete(d1, Top.task_id, result.status, now) IN
                /\ tasks' = q2.tasks
                /\ agent_status' = q2.agent_status
                /\ stack' = IF Top.auto_chain
                            THEN Append(SetTop([Top EXCEPT !.pc = "called"]),
                                        Frame("auto_chain", "begin", Top.task_id,
                                              FALSE, result, 0))
                            ELSE Returns
           ELSE LET reason == IF Truthy(result.status) THEN result.status
                              ELSE "Execution failed with exit code 1"
                    q2 == QueueService_fail(d1, Top.task_id, reason, now)
                IN  /\ tasks' = q2.tasks
                    /\ agent_status' = q2.agent_status
                    /\ stack' = Returns
    /\ UNCHANGED <<last, templates, agents, auxVars>>

auto_chain_begin_ignores_task_flag ==
    /\ Running("auto_chain", "begin")
    /\ LET i == IndexOf(tasks, Top.task_id)
           status == Top.result.status
       IN
       IF i = 0 THEN stack' = Returns /\ UNCHANGED <<tasks, agent_status>>
       ELSE LET task == tasks[i]
                workflow_name == task.metadata.workflow_name
                step_index == task.metadata.workflow_step
                enhancement_name == task.metadata.enhancement_title
            IN
            IF ~Truthy(workflow_name) \/ step_index = NoStep
            THEN stack' = Returns /\ UNCHANGED <<tasks, agent_status>>
            ELSE IF ~should_auto_chain(templates, workflow_name, step_index, status)
            THEN stack' = Returns /\ UNCHANGED <<tasks, agent_status>>
            ELSE LET next_step_index ==
                        get_next_step(templates, workflow_name, step_index, status)
                 IN
                 IF next_step_index = NoStep
                 THEN stack' = Returns /\ UNCHANGED <<tasks, agent_status>>
                 ELSE LET next_step == get_step(WorkflowService_get(templates, workflow_name),
                                                next_step_index)
                          r == QueueService_add(Q, next_step.agent, task.auto_chain,
                                   [workflow_name |-> workflow_name,
                                    workflow_step |-> next_step_index,
                                    enhancement_title |-> enhancement_name,
                                    requested_model |-> next_step.model,
                                    log_file_path |-> NULL])
                      IN  /\ Len(tasks) < MaxTasks
                          /\ tasks' = r.tasks
                          /\ agent_status' = r.agent_status
                          /\ stack' = SetTop([Top EXCEPT !.pc = "run",
                                                 !.next_id = r.tasks[Len(r.tasks)].id])
    /\ UNCHANGED <<last, templates, agents, auxVars>>

\* auto_chain, lines 603-669: decide whether to chain and create the next task
auto_chain_begin ==
    /\ Running("auto_chain", "begin")
    /\ LET i == IndexOf(tasks, Top.task_id)
           status == Top.result.status
       IN
       IF i = 0 THEN stack' = Returns /\ UNCHANGED <<tasks, agent_status>>
       ELSE LET task == tasks[i]
                workflow_name == task.metadata.workflow_name
                step_index == task.metadata.workflow_step
                enhancement_name == task.metadata.enhancement_title
            IN
            IF ~task.auto_chain
            THEN stack' = Returns /\ UNCHANGED <<tasks, agent_status>>
            ELSE IF ~Truthy(workflow_name) \/ step_index = NoStep
            THEN stack' = Returns /\ UNCHANGED <<tasks, agent_status>>
            ELSE IF ~should_auto_chain(templates, workflow_name, step_index, status)
            THEN stack' = Returns /\ UNCHANGED <<tasks, agent_status>>
            ELSE LET next_step_index ==
                        get_next_step(templates, workflow_name, step_index, status)
                 IN
                 IF next_step_index = NoStep
                 THEN stack' = Returns /\ UNCHANGED <<tasks, agent_status>>
                 ELSE LET next_step == get_step(WorkflowService_get(templates, workflow_name),
                                                next_step_index)
                          r == QueueService_add(Q, next_step.agent, task.auto_chain,
                                   [workflow_name |-> workflow_name,
                                    workflow_step |-> next_step_index,
                                    enhancement_title |-> enhancement_name,
                                    requested_model |-> next_step.model,
                                    log_file_path |-> NULL])
                      IN  /\ Len(tasks) < MaxTasks
                          /\ tasks' = r.tasks
                          /\ agent_status' = r.agent_status
                          /\ stack' = SetTop([Top EXCEPT !.pc = "run",
                                                 !.next_id = r.tasks[Len(r.tasks)].id])
    /\ UNCHANGED <<last, templates, agents, auxVars>>

auto_chain_run_drops_taken_transition ==
    /\ Running("auto_chain", "run")
    /\ stack' = Append(SetTop([Top EXCEPT !.pc = "called"]),
                       Frame("run_task", "begin", Top.next_id, FALSE, NoResult, 0))
    /\ LET task == tasks[IndexOf(tasks, Top.task_id)] IN
       templates' = [templates EXCEPT
                        ![task.metadata.workflow_name].steps[task.metadata.workflow_step + 1].on_status = <<>>]
    /\ UNCHANGED <<tasks, agent_status, last, agents, auxVars>>

\* auto_chain, lines 676-677: run the chained task on the same stack
auto_chain_run ==
    /\ Running("auto_chain", "run")
    /\ stack' = Append(SetTop([Top EXCEPT !.pc = "called"]),
                       Frame("run_task", "begin", Top.next_id, FALSE, NoResult, 0))
    /\ UNCHANGED <<tasks, agent_status, last, templates, agents, auxVars>>

\* a frame returns to its caller, which has nothing left to do but return
Return ==
    /\ stack # <<>>
    /\ Top.pc = "return"
    /\ stack' = IF Len(stack) = 1 THEN <<>>
                ELSE LET rest == SubSeq(stack, 1, Len(stack) - 1) IN
                     [rest EXCEPT ![Len(rest)] = [@ EXCEPT !.pc = "return"]]
    /\ UNCHANGED <<tasks, agent_status, last, templates, agents, auxVars>>

----------------------------------------------------------------------------
(* The orchestrator driven by an operator *)

WorkflowNames == {"feature", "missing"}
Enhancements == {"add-login"}
ModelOverrides == {NULL, "claude-opus"}
TransitionNames == {"READY_FOR_DEVELOPMENT"}

\* the model a step of this agent is configured with
StepModel(agent) == IF agent = "architect" THEN "claude-sonnet" ELSE NULL

\* the on_status tables of a step: one transition; every other status has
\* none.  auto_start is the default (True), or False on a transition that
\* chains to a named step
OnStatusTables ==
    {[n \in {name} |-> StepTransition(name, next, ac, TRUE)] :
        name \in TransitionNames, next \in Agents \cup {NULL}, ac \in BOOLEAN}
    \cup {[n \in {name} |-> StepTransition(name, next, TRUE, FALSE)] :
        name \in TransitionNames, next \in Agents}

StepSet ==
    {WorkflowStep(a, "enhancements/{enhancement_name}/spec.md", "output.md",
                  tbl, StepModel(a)) : a \in Agents, tbl \in OnStatusTables}

StepLists == UNION {[1..n -> StepSet] : n \in 0..MaxSteps}

Registries == {Agents, {"architect"}}

StartWorkflow ==
    \E w \in WorkflowNames, e \in Enhancements, ac \in BOOLEAN, ex \in BOOLEAN,
       m \in ModelOverrides :
        start_workflow(w, e, ac, ex, m)

\* an operator runs a task of the store, or an id the store does not hold
RunTaskCall ==
    /\ stack = <<>>
    /\ \E id \in TaskIds :
          stack' = <<Frame("run_task", "begin", id, FALSE, NoResult, 0)>>
    /\ UNCHANGED <<tasks, agent_status, last, templates, agents, auxVars>>

RunTaskBegin == \E now \in Times : run_task_begin(now)

RunTaskExecute == \E result \in TaskService_execute_results : run_task_execute(result)

RunTaskFinish == \E now \in Times : run_task_finish(now)

InitOrch ==
    /\ tasks = <<>>
    /\ agent_status = [a \in {} |-> Idle]
    /\ last = NoCall
    /\ \E steps \in StepLists :
          templates = [w \in {"feature"} |->
                          WorkflowTemplate(w, "Feature development", "", steps)]
    /\ agents \in Registries
    /\ stack = <<>>
    /\ NoAux

NextOrch ==
    \/ StartWorkflow
    \/ RunTaskCall
    \/ RunTaskBegin
    \/ RunTaskExecute
    \/ RunTaskFinish
    \/ auto_chain_begin
    \/ auto_chain_run
    \/ Return

SpecOrch == InitOrch /\ [][NextOrch]_vars

\* an operator calls auto_chain(task_id, status) itself, outside run_task, once
\* the first task of a workflow has completed and no successor exists; the id
\* is that task's or one the store does not hold
AutoChainCall ==
    /\ stack = <<>>
    /\ Len(tasks) = 1
    /\ tasks[1].status = "completed"
    /\ \E id \in TaskIds, status \in Statuses :
          stack' = <<Frame("auto_chain", "begin", id, FALSE,
                           ExecResult(TRUE, status, 0, NULL), 0)>>
    /\ UNCHANGED <<tasks, agent_status, last, templates, agents, auxVars>>

NextDirect ==
    \/ StartWorkflow
    \/ RunTaskCall
    \/ AutoChainCall
    \/ RunTaskBegin
    \/ RunTaskExecute
    \/ RunTaskFinish
    \/ auto_chain_begin
    \/ auto_chain_run
    \/ Return

SpecDirect == InitOrch /\ [][NextDirect]_vars


----------------------------------------------------------------------------
(* core/services/workflow_service.py, lines 45-105: the Template Store.    *)
(* add, update and delete each load the whole document, change their copy  *)
(* and save it; nothing serialises two callers.  callers[c] is caller c's  *)
(* position in its one mutation, with the copy it loaded; arg is the       *)
(* document before either began.  A save replaces the file in one step.    *)

Callers == {"c1", "c2"}
TemplateIds == {"feature", "bugfix"}
Mutations == {"add", "update", "delete"}

\* the template caller c passes to add / update
TemplateBy(c, id) == WorkflowTemplate(id, c, "", <<>>)

Saved(doc) == [doc |-> doc, saved |-> TRUE]
NotSaved(doc) == [doc |-> doc, saved |-> FALSE]

\* add, lines 82-85
WorkflowService_add(doc, template) ==
    Saved([w \in DOMAIN doc \cup {template.id} |->
              IF w = template.id THEN template ELSE doc[w]])

\* update, lines 89-95
WorkflowService_update(doc, template) ==
    IF template.id \notin DOMAIN doc THEN NotSaved(doc)
    ELSE Saved([doc EXCEPT ![template.id] = template])

\* delete, lines 99-105
WorkflowService_delete(doc, workflow_id) ==
    IF workflow_id \notin DOMAIN doc THEN NotSaved(doc)
    ELSE Saved([w \in DOMAIN doc \ {workflow_id} |-> doc[w]])

\* what mutation op of caller c makes of a loaded document
Mutated(op, c, id, doc) ==
    CASE op = "add" -> WorkflowService_add(doc, TemplateBy(c, id))
      [] op = "update" -> WorkflowService_update(doc, TemplateBy(c, id))
      [] op = "delete" -> WorkflowService_delete(doc, id)

Caller(pc, op, id, doc) == [pc |-> pc, op |-> op, id |-> id, doc |-> doc]

\* _load_templates: caller c enters a mutation and reads the file
TemplateLoad(c) ==
    /\ callers[c].pc = "idle"
    /\ \E op \in Mutations, id \in TemplateIds :
          callers' = [callers EXCEPT ![c] = Caller("loaded", op, id, templates)]
    /\ UNCHANGED <<tasks, agent_status, last, templates, agents, stack, arg, ret>>

\* the change to the copy and _save_templates: caller c writes its copy back
TemplateSave(c) ==
    /\ callers[c].pc = "loaded"
    /\ LET r == Mutated(callers[c].op, c, callers[c].id, callers[c].doc) IN
       /\ templates' = IF r.saved THEN r.doc ELSE templates
       /\ callers' = [callers EXCEPT ![c].pc = "done", ![c].doc = r.doc]
    /\ UNCHANGED <<tasks, agent_status, last, agents, stack, arg, ret>>

Load == \E c \in Callers : TemplateLoad(c)

Save == \E c \in Callers : TemplateSave(c)

\* the documents a run starts from: any of the template ids, as first written
StoredDocs ==
    {[w \in ids |-> WorkflowTemplate(w, "original", "", <<>>)] :
        ids \in SUBSET TemplateIds}

InitTemplates ==
    /\ tasks = <<>>
    /\ agent_status = [a \in {} |-> Idle]
    /\ last = NoCall
    /\ templates \in StoredDocs
    /\ agents = {}
    /\ stack = <<>>
    /\ callers = [c \in Callers |-> Caller("idle", NULL, NULL, EmptyDoc)]
    /\ arg = templates
    /\ ret = NULL

NextTemplates ==
    \/ Load
    \/ Save

SpecTemplates == InitTemplates /\ [][NextTemplates]_vars

----------------------------------------------------------------------------
(* Two callers of run_task at once.  run_task is translated from           *)
(* workflow_service.py, lines 693-749.  The Task Store it calls is, in the *)
(* words of the design document, one document read, modified and rewritten *)
(* per operation with no isolation between concurrent writers: start reads *)
(* the document, checks the task and writes the document back, and another *)
(* caller may run in between.  callers[c] is caller c's position in its    *)
(* one run_task call, the document its start read, and whether it invoked  *)
(* the Execution Boundary.                                                 *)

Runner(pc, task_id, doc, executed) ==
    [pc |-> pc, task_id |-> task_id, doc |-> doc, executed |-> executed]

\* run_task, lines 693-703: fetch the task and its agent
ConcurrentRunTaskGet(c) ==
    /\ callers[c].pc = "idle"
    /\ \E id \in TaskIds :
          LET i == IndexOf(tasks, id) IN
          callers' = [callers EXCEPT ![c] =
                         IF i = 0 \/ tasks[i].assigned_agent \notin agents
                         THEN Runner("done", id, <<>>, FALSE)
                         ELSE Runner("start", id, <<>>, FALSE)]
    /\ UNCHANGED <<tasks, agent_status, last, templates, agents, stack, arg, ret>>

\* QueueService.start, first half: read the document
QueueService_start_read(c) ==
    /\ callers[c].pc = "start"
    /\ callers' = [callers EXCEPT ![c].pc = "start_read", ![c].doc = tasks]
    /\ UNCHANGED <<tasks, agent_status, last, templates, agents, stack, arg, ret>>

\* QueueService.start, second half: check the task read, write the document;
\* run_task, lines 706-732: return None, or go on to the Execution Boundary
QueueService_start_write(c, now) ==
    /\ callers[c].pc = "start_read"
    /\ LET r == QueueService_start(Doc(callers[c].doc, agent_status),
                                   callers[c].task_id, now)
       IN  IF ~r.ok
           THEN /\ callers' = [callers EXCEPT ![c].pc = "done"]
                /\ UNCHANGED <<tasks, agent_status>>
           ELSE /\ tasks' = r.tasks
                /\ agent_status' = r.agent_status
                /\ callers' = [callers EXCEPT ![c].pc = "executing",
                                              ![c].executed = TRUE]
    /\ UNCHANGED <<last, templates, agents, stack, arg, ret>>

\* run_task, lines 734-749: the boundary returned; complete or fail
ConcurrentRunTaskFinish(c, result, now) ==
    /\ callers[c].pc = "executing"
    /\ LET r == IF result.success /\ Truthy(result.status)
                THEN QueueService_complete(Q, callers[c].task_id, result.status, now)
                ELSE QueueService_fail(Q, callers[c].task_id,
                                       IF Truthy(result.status) THEN result.status
                                       ELSE "Execution failed with exit code 1", now)
       IN  /\ tasks' = r.tasks
           /\ agent_status' = r.agent_status
    /\ callers' = [callers EXCEPT ![c].pc = "done"]
    /\ UNCHANGED <<last, templates, agents, stack, arg, ret>>

RaceGet == \E c \in Callers : ConcurrentRunTaskGet(c)

RaceStartRead == \E c \in Callers : QueueService_start_read(c)

RaceStartWrite == \E c \in Callers, now \in Times : QueueService_start_write(c, now)

RaceFinish ==
    \E c \in Callers, result \in TaskService_execute_results, now \in Times :
        ConcurrentRunTaskFinish(c, result, now)

\* the store after n add calls: n pending tasks
RECURSIVE AddedTasks(_)
AddedTasks(n) ==
    IF n = 0 THEN Doc(<<>>, [a \in {} |-> Idle])
    ELSE LET q == AddedTasks(n - 1)
             r == QueueService_add(q, "architect", FALSE, NoMetadata)
         IN  Doc(r.tasks, r.agent_status)

InitRace ==
    /\ \E n \in 1..MaxTasks :
          /\ tasks = AddedTasks(n).tasks
          /\ agent_status = AddedTasks(n).agent_status
    /\ last = NoCall
    /\ templates = EmptyDoc
    /\ agents = Agents
    /\ stack = <<>>
    /\ callers = [c \in Callers |-> Runner("idle", 0, <<>>, FALSE)]
    /\ arg = NULL
    /\ ret = NULL

NextRace ==
    \/ RaceGet
    \/ RaceStartRead
    \/ RaceStartWrite
    \/ RaceFinish

SpecRace == InitRace /\ [][NextRace]_vars

----------------------------------------------------------------------------
(* The Status Extractor of the TaskService, modelled from the design       *)
(* document (section 4.2).  A text is a sequence of lines and a line a     *)
(* sequence of tokens, so that the value of a field is a part of its line  *)
(* that the extractor has to cut out.  arg is the text, ret the result.    *)

MaxChunks == 3

\* the trailing window, in lines
Window == 10

\* the line that opens and closes a fenced block
Fence == <<"FENCE">>

FieldLine(name, value) == <<name, ":">> \o value

IsField(line, name) == Len(line) >= 3 /\ line[1] = name /\ line[2] = ":"

FieldValue_first_token(line) == <<line[3]>>

\* the value of a field: the remainder of its line
FieldValue(line) == SubSeq(line, 3, Len(line))

TrailingWindow(text) ==
    IF Len(text) <= Window THEN text
    ELSE SubSeq(text, Len(text) - Window + 1, Len(text))

\* a well-formed trailer block starts at line p of w
IsTrailerAt(w, p) ==
    /\ p >= 1
    /\ p + 4 <= Len(w)
    /\ w[p] = Fence
    /\ IsField(w[p + 1], "agent")
    /\ IsField(w[p + 2], "task_id")
    /\ IsField(w[p + 3], "status")
    /\ w[p + 4] = Fence

\* the status values of the trailer blocks of w from line p on, in order
RECURSIVE TrailerStatuses(_, _)
TrailerStatuses(w, p) ==
    IF p > Len(w) THEN <<>>
    ELSE IF IsTrailerAt(w, p)
         THEN <<FieldValue(w[p + 3])>> \o TrailerStatuses(w, p + 5)
         ELSE TrailerStatuses(w, p + 1)

\* the legacy free-text patterns, by family
LegacyFamilies == {"ready-for", "complete", "halt"}
ReadyForStatuses == {"READY_FOR_DEVELOPMENT", "READY_FOR_TESTING"}
CompleteStatuses == {"IMPLEMENTATION_COMPLETE"}
HaltCategories == {"BLOCKED"}

NoStatus == <<>>

\* what a pattern family matches in a line, NoStatus if nothing
LegacyMatch(line, family) ==
    CASE family = "ready-for" ->
            IF line # <<>> /\ line[Len(line)] \in ReadyForStatuses
            THEN <<line[Len(line)]>> ELSE NoStatus
      [] family = "complete" ->
            IF line # <<>> /\ line[Len(line)] \in CompleteStatuses
            THEN <<line[Len(line)]>> ELSE NoStatus
      [] family = "halt" ->
            LET ks == {k \in 1..(Len(line) - 2) :
                          line[k] \in HaltCategories /\ line[k + 1] = ":"}
            IN  IF ks = {} THEN NoStatus
                ELSE LET k == CHOOSE k \in ks : \A j \in ks : k <= j
                     IN  SubSeq(line, k, Len(line))

\* the matches of all families in w, each with the line it is on
LegacyMatches(w) ==
    {<<p, LegacyMatch(w[p], f)>> : p \in 1..Len(w), f \in LegacyFamilies}
        \ {<<p, NoStatus>> : p \in 1..Len(w)}

\* the order in which the pattern families are tried
FamilyRank(family) ==
    CASE family = "ready-for" -> 1
      [] family = "complete" -> 2
      [] family = "halt" -> 3

\* the matches of all families in w, each with its line and its family
LegacyMatchesByFamily(w) ==
    {<<p, f, LegacyMatch(w[p], f)>> : p \in 1..Len(w), f \in LegacyFamilies}
        \ {<<p, f, NoStatus>> : p \in 1..Len(w), f \in LegacyFamilies}

LastLegacyMatch_of_last_family(w) ==
    LET ms == LegacyMatchesByFamily(w) IN
    IF ms = {} THEN NoStatus
    ELSE (CHOOSE m \in ms : \A n \in ms :
             \/ FamilyRank(n[2]) < FamilyRank(m[2])
             \/ FamilyRank(n[2]) = FamilyRank(m[2]) /\ n[1] <= m[1])[3]

\* the last match by position, whichever family made it
LastLegacyMatch(w) ==
    LET ms == LegacyMatches(w) IN
    IF ms = {} THEN NoStatus
    ELSE (CHOOSE m \in ms : \A n \in ms : n[1] <= m[1])[2]

TaskService_extract_status_prefers_legacy(text) ==
    LET w == TrailingWindow(text)
        found == TrailerStatuses(w, 1)
    IN  IF LastLegacyMatch(w) # NoStatus THEN LastLegacyMatch(w)
        ELSE IF found # <<>> THEN found[Len(found)]
        ELSE NoStatus

TaskService_extract_status(text) ==
    LET w == TrailingWindow(text)
        found == TrailerStatuses(w, 1)
    IN  IF found # <<>> THEN found[Len(found)]
        ELSE LastLegacyMatch(w)

\* the pieces transcripts are made of
Prose == <<<<"The", "schema", "is", "drafted.">>>>
LongProse == [k \in 1..6 |-> <<"Reviewing", "the", "requirements.">>]

TrailerStatusValues ==
    {<<"READY_FOR_DEVELOPMENT">>, <<"BLOCKED", ":", "missing schema">>}

Trailer(value) ==
    <<Fence, FieldLine("agent", <<"architect">>),
      FieldLine("task_id", <<"task_1234567890_12345">>),
      FieldLine("status", value), Fence>>

\* a block whose fields are out of order
MisorderedTrailer(value) ==
    <<Fence, FieldLine("task_id", <<"task_1234567890_12345">>),
      FieldLine("agent", <<"architect">>),
      FieldLine("status", value), Fence>>

Chunks ==
    {Prose, LongProse, <<<<"Now", "READY_FOR_TESTING">>>>,
     <<<<"IMPLEMENTATION_COMPLETE">>>>,
     MisorderedTrailer(<<"BLOCKED", ":", "missing schema">>)}
    \cup {Trailer(v) : v \in TrailerStatusValues}

RECURSIVE Joined(_, _)
Joined(cs, k) == IF k > Len(cs) THEN <<>> ELSE cs[k] \o Joined(cs, k + 1)

Texts == {Joined(cs, 1) : cs \in UNION {[1..n -> Chunks] : n \in 0..MaxChunks}}

Extracted(done, status) == [done |-> done, status |-> status]

Extract ==
    /\ ~ret.done
    /\ ret' = Extracted(TRUE, TaskService_extract_status(arg))
    /\ UNCHANGED <<tasks, agent_status, last, templates, agents, stack, callers, arg>>

InitExtract ==
    /\ tasks = <<>>
    /\ agent_status = [a \in {} |-> Idle]
    /\ last = NoCall
    /\ templates = EmptyDoc
    /\ agents = {}
    /\ stack = <<>>
    /\ callers = <<>>
    /\ arg \in Texts
    /\ ret = Extracted(FALSE, NoStatus)

NextExtract == Extract

SpecExtract == InitExtract /\ [][NextExtract]_vars

----------------------------------------------------------------------------
(* Serialisation of the workflow models: to_dict / from_dict of            *)
(* step_transition.py, workflow_step.py and workflow_template.py.  A JSON  *)
(* object is a function from its keys; a key to_dict leaves out is not in  *)
(* the domain.                                                             *)

\* dict.get(key, default)
DictGet(data, key, default) == IF key \in DOMAIN data THEN data[key] ELSE default

StepTransition_to_dict_keeps_description(t) ==
    [next_step |-> t.next_step, auto_chain |-> t.auto_chain,
     auto_start |-> t.auto_start, description |-> t.description]

\* StepTransition.to_dict: description only if truthy
StepTransition_to_dict(t) ==
    IF Truthy(t.description)
    THEN [next_step |-> t.next_step, auto_chain |-> t.auto_chain,
          auto_start |-> t.auto_start, description |-> t.description]
    ELSE [next_step |-> t.next_step, auto_chain |-> t.auto_chain,
          auto_start |-> t.auto_start]

StepTransition_from_dict(name, data) ==
    [name |-> name,
     next_step |-> DictGet(data, "next_step", NULL),
     auto_chain |-> DictGet(data, "auto_chain", TRUE),
     auto_start |-> DictGet(data, "auto_start", TRUE),
     description |-> DictGet(data, "description", NULL)]

\* WorkflowStep.to_dict: the transitions under their keys, model only if truthy
WorkflowStep_to_dict(step) ==
    LET on_status == [n \in DOMAIN step.on_status |->
                         StepTransition_to_dict(step.on_status[n])]
    IN  IF Truthy(step.model)
        THEN [agent |-> step.agent, input |-> step.input,
              required_output |-> step.required_output,
              on_status |-> on_status, model |-> step.model]
        ELSE [agent |-> step.agent, input |-> step.input,
              required_output |-> step.required_output,
              on_status |-> on_status]

WorkflowStep_from_dict(data) ==
    LET table == DictGet(data, "on_status", <<>>) IN
    [agent |-> data.agent, input |-> data.input,
     required_output |-> data.required_output,
     on_status |-> [n \in DOMAIN table |-> StepTransition_from_dict(n, table[n])],
     model |-> DictGet(data, "model", NULL)]

\* WorkflowTemplate.to_dict: the id is the key the template is stored under
WorkflowTemplate_to_dict(template) ==
    [name |-> template.name, description |-> template.description,
     steps |-> [k \in 1..Len(template.steps) |->
                   WorkflowStep_to_dict(template.steps[k])]]

WorkflowTemplate_from_dict(workflow_id, data) ==
    LET steps == DictGet(data, "steps", <<>>) IN
    [id |-> workflow_id, name |-> data.name, description |-> data.description,
     steps |-> [k \in 1..Len(steps) |-> WorkflowStep_from_dict(steps[k])]]

\* _load_templates on the "workflows" object of the file
load_templates(workflows) ==
    [w \in DOMAIN workflows |-> WorkflowTemplate_from_dict(w, workflows[w])]

\* _save_templates: the "workflows" object it writes
save_templates(tpls) ==
    [w \in DOMAIN tpls |-> WorkflowTemplate_to_dict(tpls[w])]

----------------------------------------------------------------------------
(* core/services/workflow_service.py, lines 107-217: editing the steps and *)
(* transitions of a stored template.  As add, update and delete above,     *)
(* each works on the loaded templates and says whether it saved them.      *)

\* list.insert(index, x), index counted from 0
InsertAt(seq, index, x) ==
    SubSeq(seq, 1, index) \o <<x>> \o SubSeq(seq, index + 1, Len(seq))

\* list.pop(index)
RemoveAt(seq, index) ==
    SubSeq(seq, 1, index) \o SubSeq(seq, index + 2, Len(seq))

WithSteps(doc, workflow_id, steps) == [doc EXCEPT ![workflow_id].steps = steps]

\* add_step; index None is NoStep
WorkflowService_add_step(doc, workflow_id, step, index) ==
    IF workflow_id \notin DOMAIN doc THEN NotSaved(doc)
    ELSE LET steps == doc[workflow_id].steps IN
         IF 0 <= index /\ index <= Len(steps)
         THEN Saved(WithSteps(doc, workflow_id, InsertAt(steps, index, step)))
         ELSE Saved(WithSteps(doc, workflow_id, Append(steps, step)))

WorkflowService_remove_step_wraps_negative_index(doc, workflow_id, step_index) ==
    IF workflow_id \notin DOMAIN doc THEN NotSaved(doc)
    ELSE LET steps == doc[workflow_id].steps IN
         IF step_index >= Len(steps) \/ step_index < 0 - Len(steps) THEN NotSaved(doc)
         ELSE Saved(WithSteps(doc, workflow_id,
                    RemoveAt(steps, IF step_index < 0 THEN Len(steps) + step_index
                                    ELSE step_index)))

WorkflowService_remove_step(doc, workflow_id, step_index) ==
    IF workflow_id \notin DOMAIN doc THEN NotSaved(doc)
    ELSE LET steps == doc[workflow_id].steps IN
         IF step_index < 0 \/ step_index >= Len(steps) THEN NotSaved(doc)
         ELSE Saved(WithSteps(doc, workflow_id, RemoveAt(steps, step_index)))

\* add_transition: on_status[status] = transition
WorkflowService_add_transition(doc, workflow_id, step_index, status, transition) ==
    IF workflow_id \notin DOMAIN doc THEN NotSaved(doc)
    ELSE IF ~HasStep(doc[workflow_id], step_index) THEN NotSaved(doc)
    ELSE LET table == get_step(doc[workflow_id], step_index).on_status IN
         Saved([doc EXCEPT ![workflow_id].steps[step_index + 1].on_status =
                   [n \in DOMAIN table \cup {status} |->
                       IF n = status THEN transition ELSE table[n]]])

\* remove_transition: del on_status[status]
WorkflowService_remove_transition(doc, workflow_id, step_index, status) ==
    IF workflow_id \notin DOMAIN doc THEN NotSaved(doc)
    ELSE IF ~HasStep(doc[workflow_id], step_index) THEN NotSaved(doc)
    ELSE LET table == get_step(doc[workflow_id], step_index).on_status IN
         IF status \notin DOMAIN table THEN NotSaved(doc)
         ELSE Saved([doc EXCEPT ![workflow_id].steps[step_index + 1].on_status =
                        [n \in DOMAIN table \ {status} |-> table[n]]])

----------------------------------------------------------------------------
(* Validation: WorkflowService.validate_template (lines 368-414) and       *)
(* WorkflowTemplate.validate_chain (workflow_template.py, lines 63-107).   *)
(* The list of messages is modelled as the set of what they say.           *)

Issue(kind, step, status, agent) ==
    [kind |-> kind, step |-> step, status |-> status, agent |-> agent]

\* agent_names once step i has been looked at
AgentNamesUpTo(template, i) ==
    {template.steps[k + 1].agent : k \in 0..i} \ {NULL, ""}

\* the forward search of lines 403-407
InLaterStep(template, i, agent) ==
    \E k \in (i + 1)..(Len(template.steps) - 1) : template.steps[k + 1].agent = agent

validate_template_step_knows_earlier_agents_only(template, i) ==
    LET step == template.steps[i + 1] IN
    (IF ~Truthy(step.agent) THEN {Issue("agent is required", i, NULL, NULL)} ELSE {})
    \cup (IF ~Truthy(step.input) THEN {Issue("input is required", i, NULL, NULL)} ELSE {})
    \cup (IF ~Truthy(step.required_output)
          THEN {Issue("required_output is required", i, NULL, NULL)} ELSE {})
    \cup {Issue("unknown agent", i, n, step.on_status[n].next_step) :
             n \in {m \in DOMAIN step.on_status :
                       /\ Truthy(step.on_status[m].next_step)
                       /\ step.on_status[m].next_step \notin AgentNamesUpTo(template, i)}}

\* the body of the loop over the steps, lines 388-412
validate_template_step(template, i) ==
    LET step == template.steps[i + 1] IN
    (IF ~Truthy(step.agent) THEN {Issue("agent is required", i, NULL, NULL)} ELSE {})
    \cup (IF ~Truthy(step.input) THEN {Issue("input is required", i, NULL, NULL)} ELSE {})
    \cup (IF ~Truthy(step.required_output)
          THEN {Issue("required_output is required", i, NULL, NULL)} ELSE {})
    \cup {Issue("unknown agent", i, n, step.on_status[n].next_step) :
             n \in {m \in DOMAIN step.on_status :
                       /\ Truthy(step.on_status[m].next_step)
                       /\ step.on_status[m].next_step \notin AgentNamesUpTo(template, i)
                       /\ ~InLaterStep(template, i, step.on_status[m].next_step)}}

validate_template(template) ==
    (IF ~Truthy(template.id) THEN {Issue("Workflow ID is required", NoStep, NULL, NULL)} ELSE {})
    \cup (IF ~Truthy(template.name)
          THEN {Issue("Workflow name is required", NoStep, NULL, NULL)} ELSE {})
    \cup (IF template.steps = <<>>
          THEN {Issue("Workflow must have at least one step", NoStep, NULL, NULL)} ELSE {})
    \cup UNION {validate_template_step(template, i) : i \in 0..(Len(template.steps) - 1)}

\* the path segments of the input strings steps are configured with
Segments(path) ==
    CASE path = "enhancements/{enhancement_name}/spec.md" ->
            <<"enhancements", "{enhancement_name}", "spec.md">>
      [] path = "{previous_step}/required_output/output.md" ->
            <<"{previous_step}", "required_output", "output.md">>
      [] OTHER -> <<>>

\* s in path, for an s that is a whole segment or empty
Contains(path, s) == s = "" \/ \E k \in 1..Len(Segments(path)) : Segments(path)[k] = s

\* WorkflowTemplate.get_step_by_agent finds a step
HasStepByAgent(template, agent_name) ==
    \E k \in 1..Len(template.steps) : template.steps[k].agent = agent_name

validate_chain_step(template, i) ==
    LET step == template.steps[i + 1] IN
    (IF DOMAIN step.on_status = {}
     THEN {Issue("No status transitions defined", i, NULL, step.agent)} ELSE {})
    \cup {Issue("References non-existent agent", i, n, step.on_status[n].next_step) :
             n \in {m \in DOMAIN step.on_status :
                       /\ Truthy(step.on_status[m].next_step)
                       /\ step.on_status[m].next_step # "null"
                       /\ ~HasStepByAgent(template, step.on_status[m].next_step)}}
    \cup (IF /\ i > 0
             /\ ~Contains(step.input, "{previous_step}")
             /\ ~Contains(step.input, template.steps[i].agent)
          THEN {Issue("Input doesn't reference previous step output", i, NULL, step.agent)}
          ELSE {})

validate_chain(template) ==
    IF template.steps = <<>> THEN {Issue("Workflow has no steps", NoStep, NULL, NULL)}
    ELSE UNION {validate_chain_step(template, i) : i \in 0..(Len(template.steps) - 1)}

----------------------------------------------------------------------------
(* An operator editing, reading and validating the Template Store, one     *)
(* call after the other.  Here templates is the "workflows" object of the  *)
(* file, as _save_templates writes it, and ret is the last call and what   *)
(* it returned.                                                            *)

\* the steps an operator adds: a complete one, and one without input whose
\* model is the empty string
NewSteps ==
    {WorkflowStep("architect", "enhancements/{enhancement_name}/spec.md",
                  "output.md", <<>>, NULL),
     WorkflowStep("implementer", "", "output.md", <<>>, "")}

\* the transitions an operator adds under a status: to a step's agent, to an
\* agent no step has, and one whose next_step and description are empty strings
NewTransitions(status) ==
    {StepTransition(status, "implementer", TRUE, TRUE),
     [StepTransition(status, "tester", FALSE, FALSE) EXCEPT !.description = "Needs review"],
     [StepTransition(status, "", TRUE, TRUE) EXCEPT !.description = ""]}

\* the templates an operator adds or updates: one without name and steps, and
\* a complete one whose first step refers to the agent of the second
NewTemplates ==
    {WorkflowTemplate("feature", "", "", <<>>),
     WorkflowTemplate("feature", "Feature development", "Two steps",
        <<WorkflowStep("architect", "enhancements/{enhancement_name}/spec.md",
                       "output.md",
                       [n \in TransitionNames |-> StepTransition(n, "implementer", TRUE, TRUE)],
                       "claude-sonnet"),
          WorkflowStep("implementer", "{previous_step}/required_output/output.md",
                       "output.md",
                       [n \in TransitionNames |-> StepTransition(n, NULL, FALSE, TRUE)],
                       NULL)>>)}

\* the step indexes and statuses an operator passes, in range or not
StepIndexes == -1..MaxSteps
InsertIndexes == {NoStep, 0}
RemovedStatuses == TransitionNames \cup {"BLOCKED"}

\* the last call and whether it resolved
Outcome(op, found) == [op |-> op, found |-> found]

NoOutcome == Outcome("none", FALSE)

\* the templates the file holds
Loaded == load_templates(templates)

\* a mutation: load, change, and save unless the change did not resolve
Mutation(op, r) ==
    /\ templates' = IF r.saved THEN save_templates(r.doc) ELSE templates
    /\ ret' = Outcome(op, r.saved)
    /\ UNCHANGED <<tasks, agent_status, last, agents, stack, callers, arg>>

TemplateAdd ==
    \E t \in NewTemplates : Mutation("add", WorkflowService_add(Loaded, t))

TemplateUpdate ==
    \E t \in NewTemplates : Mutation("update", WorkflowService_update(Loaded, t))

TemplateDelete ==
    \E w \in WorkflowNames : Mutation("delete", WorkflowService_delete(Loaded, w))

\* the operator keeps templates within MaxSteps steps
TemplateAddStep ==
    \E w \in WorkflowNames, step \in NewSteps, index \in InsertIndexes :
        /\ w \in DOMAIN templates => Len(templates[w].steps) < MaxSteps
        /\ Mutation("add_step", WorkflowService_add_step(Loaded, w, step, index))

TemplateRemoveStep ==
    \E w \in WorkflowNames, i \in StepIndexes :
        Mutation("remove_step", WorkflowService_remove_step(Loaded, w, i))

TemplateAddTransition ==
    \E w \in WorkflowNames, i \in StepIndexes, n \in TransitionNames :
        \E transition \in NewTransitions(n) :
            Mutation("add_transition",
                WorkflowService_add_transition(Loaded, w, i, n, transition))

TemplateRemoveTransition ==
    \E w \in WorkflowNames, i \in StepIndexes, n \in RemovedStatuses :
        Mutation("remove_transition",
            WorkflowService_remove_transition(Loaded, w, i, n))

\* WorkflowService.get
TemplateGet ==
    \E w \in WorkflowNames :
        /\ ret' = Outcome("get", HasWorkflow(Loaded, w))
        /\ UNCHANGED <<tasks, agent_status, last, templates, agents, stack, callers, arg>>

\* the operator validates a stored template; found says that no issue was
\* returned
TemplateValidate ==
    \E w \in DOMAIN templates :
        /\ ret' = Outcome("validate",
                          validate_template(WorkflowService_get(Loaded, w)) = {})
        /\ UNCHANGED <<tasks, agent_status, last, templates, agents, stack, callers, arg>>

InitCrud ==
    /\ tasks = <<>>
    /\ agent_status = [a \in {} |-> Idle]
    /\ last = NoCall
    /\ templates = EmptyDoc
    /\ agents = {}
    /\ stack = <<>>
    /\ callers = <<>>
    /\ arg = NULL
    /\ ret = NoOutcome

NextCrud ==
    \/ TemplateAdd
    \/ TemplateUpdate
    \/ TemplateDelete
    \/ TemplateAddStep
    \/ TemplateRemoveStep
    \/ TemplateAddTransition
    \/ TemplateRemoveTransition
    \/ TemplateGet
    \/ TemplateValidate

SpecCrud == InitCrud /\ [][NextCrud]_vars

----------------------------------------------------------------------------
(* The orchestrator under the assumption that every step in progress is    *)
(* taken: the thread keeps running and every call of the Execution         *)
(* Boundary returns.                                                       *)

\* the on_status tables of the workflows that are run: a chaining transition
\* to a named agent or to no step, or a halting one
ChainTables ==
    {[n \in {name} |-> StepTransition(name, next, TRUE, TRUE)] :
        name \in TransitionNames, next \in Agents \cup {NULL}}
    \cup {[n \in {name} |-> StepTransition(name, "implementer", FALSE, TRUE)] :
        name \in TransitionNames}

ChainStepLists ==
    UNION {[1..n -> {WorkflowStep(a, "enhancements/{enhancement_name}/spec.md",
                                  "output.md", tbl, StepModel(a)) :
                        a \in Agents, tbl \in ChainTables}] : n \in 0..MaxSteps}

StartWorkflowChain ==
    \E w \in WorkflowNames, e \in Enhancements, ac \in BOOLEAN, ex \in BOOLEAN :
        start_workflow(w, e, ac, ex, NULL)

InitChain ==
    /\ tasks = <<>>
    /\ agent_status = [a \in {} |-> Idle]
    /\ last = NoCall
    /\ \E steps \in ChainStepLists :
          templates = [w \in {"feature"} |->
                          WorkflowTemplate(w, "Feature development", "", steps)]
    /\ agents \in Registries
    /\ stack = <<>>
    /\ NoAux

NextChain ==
    \/ StartWorkflowChain
    \/ RunTaskBegin
    \/ RunTaskExecute
    \/ RunTaskFinish
    \/ auto_chain_begin
    \/ auto_chain_run
    \/ Return

Progress ==
    /\ WF_vars(RunTaskBegin)
    /\ WF_vars(RunTaskExecute)
    /\ WF_vars(RunTaskFinish)
    /\ WF_vars(auto_chain_begin)
    /\ WF_vars(auto_chain_run)
    /\ WF_vars(Return)

SpecChain == InitChain /\ [][NextChain]_vars /\ Progress

----------------------------------------------------------------------------
(* The orchestrator while an operator uses the command surface: a task is  *)
(* cancelled, a template deleted or a step removed from another process    *)
(* between two steps of run_task / auto_chain (the Execution Boundary      *)
(* takes minutes to return).                                               *)

\* a two-step workflow that chains from the architect to the implementer,
\* and one that revisits the architect
ChainTo(next_step) ==
    [n \in TransitionNames |-> StepTransition(n, next_step, TRUE, TRUE)]

OperatorStepLists ==
    {<<WorkflowStep("architect", "enhancements/{enhancement_name}/spec.md",
                    "output.md", ChainTo("implementer"), StepModel("architect")),
       WorkflowStep("implementer", "{previous_step}/required_output/output.md",
                    "output.md", ChainTo(next), StepModel("implementer"))>> :
        next \in {NULL, "architect"}}

OperatorCancel == Cancel

OperatorDelete ==
    /\ \E w \in WorkflowNames :
          LET r == WorkflowService_delete(templates, w) IN
          /\ templates' = r.doc
          /\ last' = Call("delete", r.saved, 0)
    /\ UNCHANGED <<tasks, agent_status, agents, stack, auxVars>>

OperatorRemoveStep ==
    /\ \E w \in WorkflowNames, i \in StepIndexes :
          LET r == WorkflowService_remove_step(templates, w, i) IN
          /\ templates' = r.doc
          /\ last' = Call("remove_step", r.saved, 0)
    /\ UNCHANGED <<tasks, agent_status, agents, stack, auxVars>>

InitOperator ==
    /\ tasks = <<>>
    /\ agent_status = [a \in {} |-> Idle]
    /\ last = NoCall
    /\ \E steps \in OperatorStepLists :
          templates = [w \in {"feature"} |->
                          WorkflowTemplate(w, "Feature development", "", steps)]
    /\ agents = Agents
    /\ stack = <<>>
    /\ NoAux

NextOperator ==
    \/ StartWorkflow
    \/ RunTaskCall
    \/ RunTaskBegin
    \/ RunTaskExecute
    \/ RunTaskFinish
    \/ auto_chain_begin
    \/ auto_chain_run
    \/ Return
    \/ OperatorCancel
    \/ OperatorDelete
    \/ OperatorRemoveStep

SpecOperator == InitOperator /\ [][NextOperator]_vars

----------------------------------------------------------------------------
(* core/services/workflow_service.py, lines 268-315: the statuses shown to *)
(* the agent.  The text has a section per non-empty group and a line per   *)
(* status; it is modelled as the two groups of lines, a line being the     *)
(* status and, on a halt line, the description when there is one.  With    *)
(* both groups empty the text is "(No workflow-defined statuses)".         *)

PromptLine(status_name) == <<status_name>>

PromptLineWith(status_name, description) == <<status_name, description>>

format_statuses_for_prompt(step) ==
    [completion_statuses |->
        {PromptLine(n) : n \in {m \in DOMAIN step.on_status :
                                   ~is_halt_status(step.on_status[m])}},
     halt_statuses |->
        {IF Truthy(step.on_status[n].description)
         THEN PromptLineWith(n, step.on_status[n].description)
         ELSE PromptLine(n) :
            n \in {m \in DOMAIN step.on_status : is_halt_status(step.on_status[m])}}]

(* Workflows whose steps declare two statuses: one that chains, halts or   *)
(* ends the workflow, and one that always halts.                           *)

PromptTables ==
    {[s \in Statuses |->
        IF s \in TransitionNames THEN StepTransition(s, next, ac, TRUE)
        ELSE [StepTransition(s, NULL, FALSE, TRUE)
                 EXCEPT !.description = "Needs a decision"]] :
        next \in Agents \cup {NULL, ""}, ac \in BOOLEAN}

PromptStepLists ==
    UNION {[1..n -> {WorkflowStep(a, "enhancements/{enhancement_name}/spec.md",
                                  "output.md", tbl, StepModel(a)) :
                        a \in Agents, tbl \in PromptTables}] : n \in 0..MaxSteps}

InitPrompt ==
    /\ tasks = <<>>
    /\ agent_status = [a \in {} |-> Idle]
    /\ last = NoCall
    /\ \E steps \in PromptStepLists :
          templates = [w \in {"feature"} |->
                          WorkflowTemplate(w, "Feature development", "", steps)]
    /\ agents = Agents
    /\ stack = <<>>
    /\ NoAux

SpecPrompt == InitPrompt /\ [][NextChain]_vars

----------------------------------------------------------------------------
(* core/services/workflow_service.py, lines 32-43 and 436-447: the         *)
(* services of a WorkflowService are None until set_services is called.    *)
(* arg holds which of them are set.                                        *)

Services(queue, task, agent) ==
    [queue_service |-> queue, task_service |-> task, agent_service |-> agent]

NoServices == Services(FALSE, FALSE, FALSE)

set_services(queue, task, agent) ==
    /\ stack = <<>>
    /\ arg # Services(queue, task, agent)
    /\ arg' = Services(queue, task, agent)
    /\ UNCHANGED <<tasks, agent_status, last, templates, agents, stack, callers, ret>>

\* start_workflow from its first line: lines 533-535, then the rest
WorkflowService_start_workflow(workflow_name, enhancement_name, auto_chain, execute, model) ==
    IF ~arg.queue_service \/ ~arg.agent_service
    THEN /\ stack = <<>>
         /\ tasks = <<>>
         /\ last' = Call("start_workflow", FALSE, 0)
         /\ UNCHANGED <<tasks, agent_status, templates, agents, stack, auxVars>>
    ELSE start_workflow(workflow_name, enhancement_name, auto_chain, execute, model)

\* run_task from its first line: lines 689-691, then the rest
WorkflowService_run_task_begin(now) ==
    IF ~arg.queue_service \/ ~arg.task_service \/ ~arg.agent_service
    THEN /\ Running("run_task", "begin")
         /\ stack' = Returns
         /\ last' = Call("run_task", FALSE, 0)
         /\ UNCHANGED <<tasks, agent_status, templates, agents, auxVars>>
    ELSE run_task_begin(now)

SetServices == \E queue, task, agent \in BOOLEAN : set_services(queue, task, agent)

StartWorkflowWithServices ==
    \E w \in WorkflowNames, e \in Enhancements, ac \in BOOLEAN, ex \in BOOLEAN,
       m \in ModelOverrides :
        WorkflowService_start_workflow(w, e, ac, ex, m)

RunTaskBeginWithServices == \E now \in Times : WorkflowService_run_task_begin(now)

InitServices ==
    /\ tasks = <<>>
    /\ agent_status = [a \in {} |-> Idle]
    /\ last = NoCall
    /\ \E steps \in ChainStepLists :
          templates = [w \in {"feature"} |->
                          WorkflowTemplate(w, "Feature development", "", steps)]
    /\ agents \in Registries
    /\ stack = <<>>
    /\ callers = <<>>
    /\ arg = NoServices
    /\ ret = NULL

\* the services are not replaced while a call is in progress, so auto_chain,
\* which run_task calls, finds the services that run_task found (line 603)
NextServices ==
    \/ SetServices
    \/ StartWorkflowWithServices
    \/ RunTaskBeginWithServices
    \/ RunTaskExecute
    \/ RunTaskFinish
    \/ auto_chain_begin
    \/ auto_chain_run
    \/ Return

SpecServices == InitServices /\ [][NextServices]_vars

----------------------------------------------------------------------------
(* src/task_manager.py: the demonstration TaskManager and its storage file *)

\* the ids add_task hands out in a run
MaxIds == 3

(* Text is a sequence of pieces: "|" and "\n" are the separator            *)
(* characters, " " is a blank, every other piece is a run of characters    *)
(* that holds none of the three.                                           *)
Pipe == "|"
Newline == "\n"
Blank == " "

\* None in a field that otherwise holds text
NoText == <<NULL>>

\* str(n) and int(s) for the ids of the run
Decimals == <<"1", "2", "3", "4", "5", "6", "7", "8", "9">>

str(n) == <<Decimals[n]>>

IsInt(s) == \E n \in DOMAIN Decimals : s = str(n)

int(s) == CHOOSE n \in DOMAIN Decimals : s = str(n)

\* s.split(sep)
RECURSIVE SplitFrom(_, _, _, _)
SplitFrom(s, sep, i, part) ==
    IF i > Len(s) THEN <<part>>
    ELSE IF s[i] = sep THEN <<part>> \o SplitFrom(s, sep, i + 1, <<>>)
    ELSE SplitFrom(s, sep, i + 1, Append(part, s[i]))

split(s, sep) == SplitFrom(s, sep, 1, <<>>)

\* s.strip()
Whitespace == {Blank, Newline}

RECURSIVE lstrip(_)
lstrip(s) ==
    IF s # <<>> /\ Head(s) \in Whitespace THEN lstrip(Tail(s)) ELSE s

RECURSIVE rstrip(_)
rstrip(s) ==
    IF s # <<>> /\ s[Len(s)] \in Whitespace
    THEN rstrip(SubSeq(s, 1, Len(s) - 1)) ELSE s

strip(s) == rstrip(lstrip(s))

\* Task(title, description, task_id) of task_manager.py
TaskManager_Task(title, description, task_id, now) ==
    [id |-> task_id, title |-> title, description |-> description,
     status |-> <<"pending">>, created_at |-> now, completed_at |-> NoText]

TaskManager_Task_complete(task, now) ==
    [task EXCEPT !.status = <<"completed">>, !.completed_at = now]

\* the manager object: its task list and its id counter
TaskManager(ts, next_id) == [tasks |-> ts, next_id |-> next_id]

\* the line save_tasks writes for a task
TaskLine(task) ==
    str(task.id) \o <<Pipe>> \o task.title \o <<Pipe>> \o task.description
        \o <<Pipe>> \o task.status \o <<Pipe>> \o task.created_at \o <<Pipe>>
        \o (IF task.completed_at = NoText \/ task.completed_at = <<>>
            THEN <<>> ELSE task.completed_at)
        \o <<Newline>>

RECURSIVE TaskManager_save_tasks(_)
TaskManager_save_tasks(ts) ==
    IF ts = <<>> THEN <<>>
    ELSE TaskLine(Head(ts)) \o TaskManager_save_tasks(Tail(ts))

\* the task a line of at least six parts is read as
TaskOfParts(parts) ==
    [id |-> int(parts[1]), title |-> parts[2], description |-> parts[3],
     status |-> parts[4], created_at |-> parts[5],
     completed_at |-> IF parts[6] # <<>> THEN parts[6] ELSE NoText]

\* load_tasks, line by line; int() raises ValueError on a first part that
\* is not a number and the constructor does not return
Loading(m, raised) == [manager |-> m, raised |-> raised]

RECURSIVE LoadLines(_, _, _)
LoadLines(lines, i, m) ==
    IF i > Len(lines) THEN Loading(m, FALSE)
    ELSE LET line == strip(lines[i])
             parts == split(line, Pipe)
         IN IF line = <<>> \/ Len(parts) < 6 THEN LoadLines(lines, i + 1, m)
            ELSE IF ~IsInt(parts[1]) THEN Loading(m, TRUE)
            ELSE LET task == TaskOfParts(parts)
                 IN LoadLines(lines, i + 1,
                        TaskManager(Append(m.tasks, task),
                                    IF task.id >= m.next_id
                                    THEN task.id + 1 ELSE m.next_id))

\* TaskManager(storage_file): an empty manager, then load_tasks
TaskManager_init(file) ==
    LoadLines(split(file, Newline), 1, TaskManager(<<>>, 1))

RECURSIVE FirstWithId(_, _, _)
FirstWithId(ts, task_id, i) ==
    IF i > Len(ts) THEN 0
    ELSE IF ts[i].id = task_id THEN i
    ELSE FirstWithId(ts, task_id, i + 1)

\* get_task: the position of the first task with the id, 0 for None
TaskManager_get_task(m, task_id) == FirstWithId(m.tasks, task_id, 1)

TaskManager_add_task(m, title, description, now) ==
    TaskManager(Append(m.tasks,
                       TaskManager_Task(title, description, m.next_id, now)),
                m.next_id + 1)

TaskManager_complete_task(m, task_id, now) ==
    LET i == TaskManager_get_task(m, task_id)
    IN [m EXCEPT !.tasks[i] = TaskManager_Task_complete(@, now)]

TaskManager_delete_task(m, task_id) ==
    LET i == TaskManager_get_task(m, task_id)
    IN [m EXCEPT !.tasks = SubSeq(@, 1, i - 1) \o SubSeq(@, i + 1, Len(@))]

(* A user of the demonstration: callers holds the one manager object that  *)
(* is open (none once the constructor has raised), arg the storage file,   *)
(* last the last call, ret the ids add_task has returned so far.           *)

\* titles and descriptions a user types
NewTasks ==
    {[title |-> <<"Task 1">>, description |-> <<>>],
     [title |-> <<"Task 2">>, description |-> <<"Description", Blank, "2">>],
     [title |-> <<"a", Pipe, "b">>, description |-> <<"c">>],
     [title |-> <<"a", Newline, Pipe>>, description |-> <<Pipe, Pipe>>]}

DemoIds == 1..MaxIds

DemoTimes == {<<t>> : t \in Times}

DemoCall(op, ok, id) == [op |-> op, ok |-> ok, id |-> id]

Manager == callers[1]

DemoAdd ==
    /\ callers # <<>>
    /\ Manager.next_id <= MaxIds
    /\ \E n \in NewTasks, now \in DemoTimes :
         LET m == TaskManager_add_task(Manager, n.title, n.description, now)
         IN /\ callers' = <<m>>
            /\ arg' = TaskManager_save_tasks(m.tasks)
            /\ last' = DemoCall("add_task", TRUE, Manager.next_id)
            /\ ret' = ret \cup {Manager.next_id}
    /\ UNCHANGED <<tasks, agent_status, templates, agents, stack>>

\* complete_task and delete_task save only when the task is found
DemoEdit(op, task_id, m) ==
    LET found == TaskManager_get_task(Manager, task_id) # 0
    IN /\ callers' = IF found THEN <<m>> ELSE callers
       /\ arg' = IF found THEN TaskManager_save_tasks(m.tasks) ELSE arg
       /\ last' = DemoCall(op, found, task_id)
       /\ UNCHANGED <<tasks, agent_status, templates, agents, stack, ret>>

DemoComplete ==
    /\ callers # <<>>
    /\ \E id \in DemoIds, now \in DemoTimes :
         DemoEdit("complete_task", id,
                  TaskManager_complete_task(Manager, id, now))

DemoDelete ==
    /\ callers # <<>>
    /\ \E id \in DemoIds :
         DemoEdit("delete_task", id, TaskManager_delete_task(Manager, id))

\* a new TaskManager on the same storage file
DemoOpen ==
    /\ callers # <<>>
    /\ LET r == TaskManager_init(arg)
       IN /\ callers' = IF r.raised THEN <<>> ELSE <<r.manager>>
          /\ last' = DemoCall("open", ~r.raised, 0)
    /\ UNCHANGED <<tasks, agent_status, templates, agents, stack, arg, ret>>

InitDemo ==
    /\ tasks = <<>>
    /\ agent_status = [a \in {} |-> Idle]
    /\ last = DemoCall("open", TRUE, 0)
    /\ templates = EmptyDoc
    /\ agents = {}
    /\ stack = <<>>
    /\ callers = <<TaskManager(<<>>, 1)>>
    /\ arg = <<>>
    /\ ret = {}

NextDemo ==
    \/ DemoAdd
    \/ DemoComplete
    \/ DemoDelete
    \/ DemoOpen

SpecDemo == InitDemo /\ [][NextDemo]_vars

----------------------------------------------------------------------------
(* Properties of the orchestrator *)

\* the task a frame is about (the frame holds its id)
Known(f) == IndexOf(tasks, f.task_id) # 0

TaskOf(f) == tasks[IndexOf(tasks, f.task_id)]

\* the transition the task's own step declares for a status, if it declares one
DeclaresTransition(t, status) ==
    /\ HasWorkflow(templates, t.metadata.workflow_name)
    /\ HasStep(WorkflowService_get(templates, t.metadata.workflow_name),
               t.metadata.workflow_step)
    /\ HasTransition(get_step(WorkflowService_get(templates, t.metadata.workflow_name),
                              t.metadata.workflow_step), status)

TransitionOf(t, status) ==
    get_transition(get_step(WorkflowService_get(templates, t.metadata.workflow_name),
                            t.metadata.workflow_step), status)

NamesStep(t, agent) ==
    \E k \in 1..Len(WorkflowService_get(templates, t.metadata.workflow_name).steps) :
        WorkflowService_get(templates, t.metadata.workflow_name).steps[k].agent = agent

\* auto_chain is deciding for a task whose transition for the status has
\* auto_chain = false
C2_HaltingTransition ==
    /\ Running("auto_chain", "begin")
    /\ Known(Top)
    /\ DeclaresTransition(TaskOf(Top), Top.result.status)
    /\ ~TransitionOf(TaskOf(Top), Top.result.status).auto_chain

C2_NothingCreatedOrRun ==
    C2_HaltingTransition
    => /\ tasks' = tasks
       /\ agent_status' = agent_status
       /\ stack' = Returns

\* every task after the first was chained from the task before it: that task
\* completed with a status whose transition has auto_chain = true
C2_SuccessorsComeFromChainingTransitions ==
    \A k \in 2..Len(tasks) :
        /\ tasks[k - 1].status = "completed"
        /\ DeclaresTransition(tasks[k - 1], tasks[k - 1].result)
        /\ TransitionOf(tasks[k - 1], tasks[k - 1].result).auto_chain

\* C2: when the step's transition for the completion status has
\* auto_chain = false, auto_chain creates no task and runs nothing, also for a
\* task whose own auto_chain flag is set and a next_step naming a step; no task
\* ever succeeds such a transition.
C2_HaltTransitionNeverChains ==
    [](C2_SuccessorsComeFromChainingTransitions) /\ [][C2_NothingCreatedOrRun]_vars

\* auto_chain returned for a task with auto_chain set whose transition names an
\* existing step but has auto_chain = false: the store still holds one task
C2_Witness ==
    /\ Running("auto_chain", "return")
    /\ Known(Top)
    /\ TaskOf(Top).auto_chain
    /\ DeclaresTransition(TaskOf(Top), Top.result.status)
    /\ ~TransitionOf(TaskOf(Top), Top.result.status).auto_chain
    /\ NamesStep(TaskOf(Top), TransitionOf(TaskOf(Top), Top.result.status).next_step)
    /\ Len(tasks) = 1

Active(ts) == {i \in 1..Len(ts) : ts[i].status = "active"}

Executing == {k \in 1..Len(stack) : stack[k].pc = "executing"}

\* the Execution Boundary is invoked in this step
BoundaryInvoked ==
    /\ Running("run_task", "begin")
    /\ Len(stack') = Len(stack)
    /\ stack'[Len(stack)].pc = "executing"

\* auto_chain creates the successor task in this step
SuccessorCreated ==
    /\ Running("auto_chain", "begin")
    /\ Len(tasks') > Len(tasks)

C3_StepInOrder ==
    /\ BoundaryInvoked
       => /\ Known(Top)
          /\ TaskOf(Top).status = "pending"
          /\ TaskOf(Top).started = NoTime
    /\ SuccessorCreated
       => /\ Executing = {}
          /\ Known(Top)
          /\ TaskOf(Top).status \notin {"pending", "active"}
          /\ Active(tasks) = {}
          /\ tasks'[Len(tasks')].status = "pending"

C3_OneAtATime ==
    /\ Cardinality(Active(tasks)) <= 1
    /\ \A k \in Executing : Known(stack[k]) /\ TaskOf(stack[k]).status = "active"
    /\ \A k \in 1..Len(stack) :
          (stack[k].fn = "auto_chain" /\ stack[k].pc = "run")
          => /\ IndexOf(tasks, stack[k].next_id) # 0
             /\ tasks[IndexOf(tasks, stack[k].next_id)].status = "pending"

\* C3: within a chain the task of a step is in the store, pending, before the
\* Execution Boundary is invoked for it; the task of the next step is created
\* only after that execution has returned and the task has left active; at most
\* one task of the chain is active at a time.
C3_ChainOrdering == [](C3_OneAtATime) /\ [][C3_StepInOrder]_vars

\* the second task of a chain is executing; the first has completed
C3_Witness ==
    /\ Len(tasks) = 2
    /\ tasks[1].status = "completed"
    /\ tasks[2].status = "active"
    /\ Running("run_task", "executing")
    /\ Top.task_id = tasks[2].id
    /\ Len(stack) = 3

C6_StartContract ==
    \A id \in AnyIds, now \in LaterTimes :
        LET i == IndexOf(tasks, id)
            r == QueueService_start(Q, id, now)
        IN  IF i # 0 /\ tasks[i].status = "pending"
            THEN /\ r.ok
                 /\ r.tasks = [tasks EXCEPT ![i].status = "active",
                                            ![i].started = now]
            ELSE ~r.ok /\ r.tasks = tasks /\ r.agent_status = agent_status

\* run_task is entered for an id the store does not hold or a task that is
\* not pending
C6_NotStartable ==
    /\ Running("run_task", "begin")
    /\ ~Known(Top) \/ TaskOf(Top).status # "pending"

C6_RunTaskReturnsNone ==
    C6_NotStartable
    => /\ stack' = Returns
       /\ last' = Call("run_task", FALSE, 0)
       /\ tasks' = tasks
       /\ agent_status' = agent_status

\* C6: start(id) on a pending task sets active and stamps started; on an absent
\* task or a task in any other status it returns nothing and changes nothing,
\* and run_task then returns None without invoking the Execution Boundary.
C6_StartRequiresPending ==
    [](C6_StartContract) /\ [][C6_RunTaskReturnsNone]_vars

\* run_task was called on a task that had already run; it returned None
C6_Witness ==
    /\ Running("run_task", "return")
    /\ last = Call("run_task", FALSE, 0)
    /\ Known(Top)
    /\ TaskOf(Top).assigned_agent \in agents
    /\ TaskOf(Top).status \in {"completed", "failed"}
    /\ TaskOf(Top).started # NoTime

\* run_task has the result of the Execution Boundary for its task in hand
Finishing == Running("run_task", "finish")

SucceededWithStatus == Top.result.success /\ Truthy(Top.result.status)

\* the task run_task finishes is the one it started, and the flag it read
\* before starting it is the task's
C11_FinishedTaskIsActive ==
    Finishing
    => /\ Known(Top)
       /\ TaskOf(Top).status = "active"
       /\ TaskOf(Top).assigned_agent \in agents
       /\ Top.auto_chain = TaskOf(Top).auto_chain

C11_CompletedThenChainedIfFlagged ==
    (Finishing /\ SucceededWithStatus)
    => LET i == IndexOf(tasks, Top.task_id) IN
       /\ Len(tasks') = Len(tasks)
       /\ tasks'[i].status = "completed"
       /\ tasks'[i].result = Top.result.status
       /\ IF tasks[i].auto_chain
          THEN /\ Len(stack') = Len(stack) + 1
               /\ stack'[Len(stack')].fn = "auto_chain"
               /\ stack'[Len(stack')].pc = "begin"
               /\ stack'[Len(stack')].task_id = Top.task_id
               /\ stack'[Len(stack')].result.status = Top.result.status
          ELSE stack' = Returns

\* C11: when run_task runs a pending task whose agent resolves and the
\* Execution Boundary reports success with an extracted status S, the task ends
\* completed with result S, and auto_chain(id, S) is invoked exactly when the
\* task's auto_chain flag is set.
C11_SuccessCompletesAndChains ==
    [](C11_FinishedTaskIsActive) /\ [][C11_CompletedThenChainedIfFlagged]_vars

\* auto_chain has just been invoked for a flagged task that completed with the
\* status the boundary extracted
C11_Witness ==
    /\ Running("auto_chain", "begin")
    /\ Known(Top)
    /\ TaskOf(Top).auto_chain
    /\ TaskOf(Top).status = "completed"
    /\ TaskOf(Top).result = Top.result.status
    /\ Top.result.success

\* the reason run_task gives fail(): the extracted status, or the exit code
FailureReason(result) ==
    IF Truthy(result.status) THEN result.status
    ELSE "Execution failed with exit code 1"

C12_FailedWithoutSuccessor ==
    (Finishing /\ ~SucceededWithStatus)
    => LET i == IndexOf(tasks, Top.task_id) IN
       /\ Len(tasks') = Len(tasks)
       /\ tasks'[i].status = "failed"
       /\ tasks'[i].result = FailureReason(Top.result)
       /\ stack' = Returns

\* a run_task frame that has its result never goes back to the boundary
C12_NoRetry ==
    \A k \in 1..Len(stack) :
        (stack[k].fn = "run_task" /\ stack[k].pc \in {"finish", "called", "return"})
        => (k <= Len(stack') => stack'[k].pc \in {"called", "return"})

\* no step of the orchestrator touches a failed task
C12_FailedStaysFailed ==
    \A i \in 1..Len(tasks) :
        tasks[i].status = "failed" => tasks'[i] = tasks[i]

\* of the store's operations only rerun is accepted on a failed task
C12_OnlyRerunLeavesFailed ==
    \A i \in 1..Len(tasks), now \in LaterTimes :
        tasks[i].status = "failed"
        => /\ \A op \in TransitionOps \ {"rerun"} :
                LET r == Attempt(op, tasks[i].id, now) IN ~r.ok /\ r.tasks = tasks
           /\ LET r == Attempt("rerun", tasks[i].id, now) IN
                r.ok /\ r.tasks[i].status = "pending"

\* C12: when the Execution Boundary reports failure, or success without an
\* extracted status, run_task moves the task to failed, does not invoke the
\* boundary again and creates no successor, also when the extracted status has
\* an auto-chaining transition; the task leaves failed only through rerun.
C12_FailureIsTerminal ==
    /\ [](C12_OnlyRerunLeavesFailed)
    /\ [][C12_FailedWithoutSuccessor /\ C12_NoRetry /\ C12_FailedStaysFailed]_vars

\* run_task returned for a flagged task whose execution failed with a status
\* that its step chains on: the task is failed and the store holds only it
C12_Witness ==
    /\ Running("run_task", "return")
    /\ Known(Top)
    /\ ~Top.result.success
    /\ TaskOf(Top).status = "failed"
    /\ TaskOf(Top).auto_chain
    /\ TaskOf(Top).result = Top.result.status
    /\ DeclaresTransition(TaskOf(Top), Top.result.status)
    /\ TransitionOf(TaskOf(Top), Top.result.status).auto_chain
    /\ NamesStep(TaskOf(Top), TransitionOf(TaskOf(Top), Top.result.status).next_step)
    /\ Len(tasks) = 1

\* auto_chain is deciding for a flagged task whose transition for the status
\* has auto_chain = true and names agent A, the agent of a step of the template
ChainsTo(A) ==
    /\ Running("auto_chain", "begin")
    /\ Known(Top)
    /\ TaskOf(Top).auto_chain
    /\ DeclaresTransition(TaskOf(Top), Top.result.status)
    /\ TransitionOf(TaskOf(Top), Top.result.status).auto_chain
    /\ TransitionOf(TaskOf(Top), Top.result.status).next_step = A
    /\ NamesStep(TaskOf(Top), A)

\* the 0-based position of the first step of the task's template run by agent A
PositionOf(t, A) ==
    LET steps == WorkflowService_get(templates, t.metadata.workflow_name).steps IN
    CHOOSE k \in 0..(Len(steps) - 1) :
        /\ steps[k + 1].agent = A
        /\ \A j \in 0..(k - 1) : steps[j + 1].agent # A

C13_OneSuccessorCreated ==
    \A A \in Agents :
        ChainsTo(A)
        => LET t == TaskOf(Top)
               n == Len(tasks) + 1
           IN  /\ Len(tasks') = n
               /\ SubSeq(tasks', 1, Len(tasks)) = tasks
               /\ tasks'[n].id \notin IdsOf(tasks)
               /\ tasks'[n].status = "pending"
               /\ tasks'[n].started = NoTime
               /\ tasks'[n].assigned_agent = A
               /\ tasks'[n].auto_chain = t.auto_chain
               /\ tasks'[n].metadata.workflow_name = t.metadata.workflow_name
               /\ tasks'[n].metadata.enhancement_title = t.metadata.enhancement_title
               /\ tasks'[n].metadata.workflow_step = PositionOf(t, A)
               /\ stack' = SetTop([Top EXCEPT !.pc = "run", !.next_id = tasks'[n].id])

\* auto_chain, having created the successor, calls run_task on it next
C13_SuccessorRunAtOnce ==
    Running("auto_chain", "run")
    => /\ tasks' = tasks
       /\ Len(stack') = Len(stack) + 1
       /\ stack'[Len(stack')].fn = "run_task"
       /\ stack'[Len(stack')].pc = "begin"
       /\ stack'[Len(stack')].task_id = Top.next_id

RunsSuccessor(k) ==
    /\ k < Len(stack)
    /\ stack[k].fn = "auto_chain"
    /\ stack[k + 1].fn = "run_task"

\* the transition auto_chain frame k chained along
ChainedAlong(k) == TransitionOf(TaskOf(stack[k]), stack[k].result.status)

\* C14: the transition's auto_start flag decides whether the successor created
\* by auto_chain begins executing: run_task is invoked on it only when
\* auto_start is true; with auto_start false it is created and left pending.
C14_AutoStartDecidesExecution ==
    \A k \in 1..Len(stack) :
        RunsSuccessor(k) => ChainedAlong(k).auto_start

\* the successor of a transition with auto_start = false is executing
C14_Witness ==
    /\ Len(tasks) = 2
    /\ Len(stack) = 3
    /\ RunsSuccessor(2)
    /\ ~ChainedAlong(2).auto_start
    /\ Running("run_task", "executing")
    /\ Top.task_id = tasks[2].id
    /\ tasks[2].status = "active"

\* auto_chain is deciding for a task whose transition for the status has no
\* next step
EndsWorkflow ==
    /\ Running("auto_chain", "begin")
    /\ Known(Top)
    /\ DeclaresTransition(TaskOf(Top), Top.result.status)
    /\ TransitionOf(TaskOf(Top), Top.result.status).next_step = NULL

C15_NothingCreated ==
    EndsWorkflow
    => /\ tasks' = tasks
       /\ agent_status' = agent_status
       /\ stack' = Returns

\* no step of the orchestrator touches a completed task
C15_CompletedStaysCompleted ==
    \A i \in 1..Len(tasks) :
        tasks[i].status = "completed" => tasks'[i] = tasks[i]

Unflagged ==
    /\ Running("auto_chain", "begin")
    /\ Known(Top)
    /\ ~TaskOf(Top).auto_chain

Resolvable(w) ==
    /\ HasWorkflow(templates, w)
    /\ WorkflowService_get(templates, w).steps # <<>>
    /\ WorkflowService_get(templates, w).steps[1].agent \in agents

C17_FirstTaskCreated(w, e, ac, ex, m) ==
    LET template == WorkflowService_get(templates, w)
        first_step == template.steps[1]
        n == Len(tasks) + 1
    IN  /\ Len(tasks') = n
        /\ SubSeq(tasks', 1, Len(tasks)) = tasks
        /\ tasks'[n].id \notin IdsOf(tasks)
        /\ tasks'[n].status = "pending"
        /\ tasks'[n].started = NoTime
        /\ tasks'[n].assigned_agent = first_step.agent
        /\ tasks'[n].auto_chain = ac
        /\ tasks'[n].metadata.workflow_name = template.id
        /\ tasks'[n].metadata.workflow_step = 0
        /\ tasks'[n].metadata.enhancement_title = e
        /\ tasks'[n].metadata.requested_model =
              (IF m # NULL THEN m ELSE first_step.model)
        /\ IF ex
           THEN /\ Len(stack') = 1
                /\ stack'[1].fn = "run_task"
                /\ stack'[1].pc = "begin"
                /\ stack'[1].task_id = tasks'[n].id
           ELSE stack' = <<>>

BothDone == \A c \in Callers : callers[c].pc = "done"

\* the document after caller a's mutation and then caller b's, one at a time
OneAfterTheOther(a, b) ==
    LET first == Mutated(callers[a].op, a, callers[a].id, arg).doc
    IN  Mutated(callers[b].op, b, callers[b].id, first).doc

\* C18: the Template Store never loses an update under concurrent mutation:
\* after any interleaving of two load / modify / save mutations the saved
\* document holds the effect of both, as if one had run after the other.
C18_NoLostUpdate ==
    BothDone
    => \E a \in Callers, b \in Callers :
          a # b /\ templates = OneAfterTheOther(a, b)

\* two adds of distinct template ids to an empty document have both returned,
\* and the saved document holds only one of the two templates
C18_Witness ==
    /\ BothDone
    /\ arg = EmptyDoc
    /\ callers["c1"].op = "add" /\ callers["c1"].id = "feature"
    /\ callers["c2"].op = "add" /\ callers["c2"].id = "bugfix"
    /\ DOMAIN templates # {"feature", "bugfix"}

\* the callers whose run_task invoked the Execution Boundary for task id
Executed(id) == {c \in Callers : callers[c].task_id = id /\ callers[c].executed}

\* C19: execution is non-reentrant: over every interleaving of run_task calls
\* on one task id the Execution Boundary is invoked at most once for the
\* task's one pending -> active transition (no caller reruns the task here).
C19_ExecutedAtMostOnce ==
    \A id \in TaskIds : Cardinality(Executed(id)) <= 1

\* two callers are inside the Execution Boundary for the same task
C19_Witness ==
    /\ callers["c1"].pc = "executing"
    /\ callers["c2"].pc = "executing"
    /\ callers["c1"].task_id = callers["c2"].task_id

\* the lines of the trailing window of the text at which a trailer block starts
TrailersInWindow ==
    {p \in 1..Len(TrailingWindow(arg)) : IsTrailerAt(TrailingWindow(arg), p)}

\* the status line of the last of them
LastStatusLine ==
    TrailingWindow(arg)[(CHOOSE p \in TrailersInWindow :
                            \A q \in TrailersInWindow : q <= p) + 3]

\* C20: for a text whose trailing window holds one or more well-formed trailer
\* blocks the extractor returns the status of the last block, and that is the
\* whole remainder of its status line, inner colons included.
C20_LastTrailerWins ==
    (ret.done /\ TrailersInWindow # {})
    => ret.status = SubSeq(LastStatusLine, 3, Len(LastStatusLine))

\* a text of two trailer blocks, READY_FOR_DEVELOPMENT and then
\* BLOCKED: missing schema, gave the second status in full
C20_Witness ==
    /\ ret.done
    /\ arg = Trailer(<<"READY_FOR_DEVELOPMENT">>)
              \o Trailer(<<"BLOCKED", ":", "missing schema">>)
    /\ Cardinality(TrailersInWindow) = 2
    /\ ret.status = <<"BLOCKED", ":", "missing schema">>

----------------------------------------------------------------------------
(* The legacy fallback of the Status Extractor *)

\* the last lines of the text, at most Window of them
LastLines ==
    [k \in 1..(IF Len(arg) <= Window THEN Len(arg) ELSE Window) |->
        arg[(IF Len(arg) <= Window THEN 0 ELSE Len(arg) - Window) + k]]

\* the pattern families that match line p of the last lines
FamiliesAt(p) == {f \in LegacyFamilies : LegacyMatch(LastLines[p], f) # NoStatus}

\* the lines of the last lines some family matches
MatchedLines == {p \in 1..Len(LastLines) : FamiliesAt(p) # {}}

\* C21: for a text with no well-formed trailer block and legacy matches at
\* lines P1 < P2, the extractor returns the match at P2, the last by position,
\* whichever family made the match at P1 and whichever made the one at P2.
C21_LastLegacyMatchWins ==
    (ret.done /\ TrailersInWindow = {})
    => \A p1, p2 \in MatchedLines :
          (p1 < p2 /\ \A q \in MatchedLines : q <= p2)
          => ret.status \in {LegacyMatch(LastLines[p2], f) : f \in FamiliesAt(p2)}

\* IMPLEMENTATION_COMPLETE and, on a later line, READY_FOR_TESTING: the
\* family tried first matched last, and its match was returned
C21_Witness ==
    /\ ret.done
    /\ TrailersInWindow = {}
    /\ \E p1, p2 \in MatchedLines :
          /\ p1 < p2
          /\ \A q \in MatchedLines : q <= p2
          /\ FamiliesAt(p1) = {"complete"}
          /\ FamiliesAt(p2) = {"ready-for"}
    /\ ret.status = <<"READY_FOR_TESTING">>

\* the status values of the well-formed trailer blocks of the last lines
TrailerValues ==
    {SubSeq(LastLines[p + 3], 3, Len(LastLines[p + 3])) : p \in TrailersInWindow}

\* the text without its first k lines
Without(k) == SubSeq(arg, k + 1, Len(arg))

\* C22: a well-formed trailer block in the trailing window decides the result
\* even when a legacy match follows it; the legacy patterns decide only when
\* there is no such block; the lines before the trailing window change
\* nothing; and with no block and no legacy match the result is none.
C22_TrailerBeforeLegacy ==
    ret.done =>
        /\ TrailersInWindow # {} => ret.status \in TrailerValues
        /\ (TrailersInWindow = {} /\ MatchedLines # {}) =>
              ret.status \in {LegacyMatch(LastLines[p], f) :
                                 p \in MatchedLines, f \in LegacyFamilies} \ {NoStatus}
        /\ (TrailersInWindow = {} /\ MatchedLines = {}) => ret.status = NoStatus
        /\ \A k \in 0..(Len(arg) - Window) :
              TaskService_extract_status(Without(k)) = ret.status

\* a text longer than the window: prose, a trailer block saying
\* READY_FOR_DEVELOPMENT, then a line a legacy pattern matches; the block won
C22_Witness ==
    /\ ret.done
    /\ arg = LongProse \o Trailer(<<"READY_FOR_DEVELOPMENT">>)
              \o <<<<"Now", "READY_FOR_TESTING">>>>
    /\ Len(arg) > Window
    /\ \E p \in TrailersInWindow, q \in MatchedLines : q > p + 4
    /\ ret.status = <<"READY_FOR_DEVELOPMENT">>

----------------------------------------------------------------------------
(* Properties of the Template Store and of validation *)

\* the templates the file holds, as get returns them
Stored == {WorkflowService_get(Loaded, w) : w \in DOMAIN templates}

StepsOf(t) == 0..(Len(t.steps) - 1)

\* the transitions of t: step index and status
TransitionsOf(t) ==
    UNION {{<<i, n>> : n \in DOMAIN t.steps[i + 1].on_status} : i \in StepsOf(t)}

NextStepOf(t, tr) == t.steps[tr[1] + 1].on_status[tr[2]].next_step

AgentsOf(t) == {t.steps[k].agent : k \in 1..Len(t.steps)}

\* the transition names an agent that no step of t has
Dangling(t, tr) == Truthy(NextStepOf(t, tr)) /\ NextStepOf(t, tr) \notin AgentsOf(t)

HasDangling(t) == \E tr \in TransitionsOf(t) : Dangling(t, tr)

\* id, name, a step, and agent, input and required_output in every step
HasRequiredFields(t) ==
    /\ Truthy(t.id) /\ Truthy(t.name) /\ t.steps # <<>>
    /\ \A k \in 1..Len(t.steps) :
          /\ Truthy(t.steps[k].agent)
          /\ Truthy(t.steps[k].input)
          /\ Truthy(t.steps[k].required_output)

\* C23 as stated: validate_template returns issues for every template with a
\* transition that names an agent no step has, and the empty list for every
\* template whose transitions all resolve.
C23_IssuesIffDanglingReference ==
    \A t \in Stored :
        /\ HasDangling(t) => validate_template(t) # {}
        /\ ~HasDangling(t) => validate_template(t) = {}

\* C23, amended: validate_template returns issues for every template with a
\* transition that names an agent no step has, and the empty list for every
\* template that has its required fields and whose transitions all resolve.
C23_IssuesIffDanglingReferenceInCompleteTemplate ==
    \A t \in Stored :
        /\ HasDangling(t) => validate_template(t) # {}
        /\ (HasRequiredFields(t) /\ ~HasDangling(t)) => validate_template(t) = {}

\* a complete template whose first step refers to the agent of a later step
\* was validated, and no issue came back
C23_Witness ==
    /\ ret = Outcome("validate", TRUE)
    /\ \E t \in Stored :
          /\ HasRequiredFields(t)
          /\ Len(t.steps) >= 2
          /\ \E tr \in TransitionsOf(t) :
                /\ tr[1] = 0
                /\ NextStepOf(t, tr) = t.steps[2].agent
                /\ NextStepOf(t, tr) # t.steps[1].agent

\* C24: validate_template reports an unknown agent for step i and status s
\* exactly when that transition's next_step is not null and is the agent of
\* no step of the template, wherever the steps stand.
C24_UnknownAgentReportedExactly ==
    \A t \in Stored : \A tr \in TransitionsOf(t) :
        Issue("unknown agent", tr[1], tr[2], NextStepOf(t, tr)) \in validate_template(t)
        <=> (NextStepOf(t, tr) # NULL /\ NextStepOf(t, tr) \notin AgentsOf(t))

\* a template with a transition whose next_step is the empty string was
\* validated, and no unknown agent was reported for that transition
C24_Witness ==
    /\ ret.op = "validate"
    /\ \E t \in Stored : \E tr \in TransitionsOf(t) :
          /\ NextStepOf(t, tr) = ""
          /\ "" \notin AgentsOf(t)
          /\ Issue("unknown agent", tr[1], tr[2], "") \notin validate_template(t)

\* C25: validating a template that has a step with no transition returns an
\* issue that names that step.
C25_StepWithoutTransitionIsNamed ==
    \A t \in Stored : \A i \in StepsOf(t) :
        DOMAIN t.steps[i + 1].on_status = {}
        => \E issue \in validate_template(t) : issue.step = i

\* validate_template returned no issue for a template with a step that has no
\* transition; validate_chain has one for that step
C25_Witness ==
    /\ ret = Outcome("validate", TRUE)
    /\ \E t \in Stored : \E i \in StepsOf(t) :
          /\ DOMAIN t.steps[i + 1].on_status = {}
          /\ Issue("No status transitions defined", i, NULL, t.steps[i + 1].agent)
                \in validate_chain(t)

\* C26: every template of the persisted document validates cleanly, whatever
\* add, update, add_step, remove_step, add_transition and remove_transition
\* were called with.
C26_PersistedTemplatesValidate ==
    \A t \in Stored : validate_template(t) = {}

\* add_transition saved a transition to an agent that no step has
C26_Witness ==
    /\ ret = Outcome("add_transition", TRUE)
    /\ \E t \in Stored : \E tr \in TransitionsOf(t) :
          NextStepOf(t, tr) = "tester" /\ Dangling(t, tr)

\* what is read back after the templates of a mutation are saved
Reloaded(r) == load_templates(save_templates(r.doc))

\* C28: the template a mutation of the Template Store saves is read back
\* equal, field by field, under the same id.
C28_SavedTemplateReadBackEqual ==
    /\ \A t \in NewTemplates :
          /\ Reloaded(WorkflowService_add(Loaded, t))[t.id] = t
          /\ LET r == WorkflowService_update(Loaded, t)
             IN  r.saved => Reloaded(r)[t.id] = t
    /\ \A w \in DOMAIN Loaded :
          /\ \A step \in NewSteps, index \in InsertIndexes :
                LET r == WorkflowService_add_step(Loaded, w, step, index)
                IN  Reloaded(r)[w] = r.doc[w]
          /\ \A i \in StepIndexes, n \in TransitionNames :
                \A transition \in NewTransitions(n) :
                    LET r == WorkflowService_add_transition(Loaded, w, i, n, transition)
                    IN  r.saved => Reloaded(r)[w] = r.doc[w]

\* add_transition was given a description that is the empty string; the
\* transition read back has none
C28_Witness ==
    /\ ret = Outcome("add_transition", TRUE)
    /\ \E t \in Stored : \E tr \in TransitionsOf(t) :
          /\ NextStepOf(t, tr) = ""
          /\ t.steps[tr[1] + 1].on_status[tr[2]].description = NULL

\* the call did not resolve: nothing saved, the loaded templates as they were
Unresolved(r) == ~r.saved /\ r.doc = Loaded

StepInRange(w, i) == HasStep(WorkflowService_get(Loaded, w), i)

EditOps ==
    {"update", "delete", "add_step", "remove_step", "add_transition",
     "remove_transition"}

C29_UnknownWorkflow ==
    /\ \A t \in NewTemplates :
          t.id \notin DOMAIN Loaded => Unresolved(WorkflowService_update(Loaded, t))
    /\ \A w \in WorkflowNames \ DOMAIN Loaded :
          /\ Unresolved(WorkflowService_delete(Loaded, w))
          /\ \A step \in NewSteps, index \in InsertIndexes :
                Unresolved(WorkflowService_add_step(Loaded, w, step, index))
          /\ \A i \in StepIndexes :
                /\ Unresolved(WorkflowService_remove_step(Loaded, w, i))
                /\ \A n \in RemovedStatuses :
                      Unresolved(WorkflowService_remove_transition(Loaded, w, i, n))
                /\ \A n \in TransitionNames : \A transition \in NewTransitions(n) :
                      Unresolved(WorkflowService_add_transition(Loaded, w, i, n,
                                                                transition))

C29_UnknownStepOrStatus ==
    \A w \in DOMAIN Loaded, i \in StepIndexes :
        /\ ~StepInRange(w, i) =>
              /\ Unresolved(WorkflowService_remove_step(Loaded, w, i))
              /\ \A n \in RemovedStatuses :
                    Unresolved(WorkflowService_remove_transition(Loaded, w, i, n))
              /\ \A n \in TransitionNames : \A transition \in NewTransitions(n) :
                    Unresolved(WorkflowService_add_transition(Loaded, w, i, n,
                                                              transition))
        /\ StepInRange(w, i) =>
              \A n \in RemovedStatuses :
                  n \notin DOMAIN get_step(WorkflowService_get(Loaded, w), i).on_status
                  => Unresolved(WorkflowService_remove_transition(Loaded, w, i, n))

\* an edit that returned None (False for delete) left the file as it was
C29_NothingWritten ==
    (ret'.op \in EditOps /\ ~ret'.found) => templates' = templates

\* C29: update, delete, add_step, remove_step, add_transition and
\* remove_transition with a workflow id the store does not hold, remove_step,
\* add_transition and remove_transition with a step index out of range, and
\* remove_transition with a status the step does not have, return None (False
\* for delete) and leave the persisted document unchanged.
C29_UnresolvedEditsChangeNothing ==
    /\ [](C29_UnknownWorkflow /\ C29_UnknownStepOrStatus)
    /\ [][C29_NothingWritten]_vars

\* remove_transition returned None on a stored template all of whose steps
\* have a transition: the step index was out of range or the status absent
C29_Witness ==
    /\ ret = Outcome("remove_transition", FALSE)
    /\ \E t \in Stored :
          /\ t.steps # <<>>
          /\ \A i \in StepsOf(t) : DOMAIN t.steps[i + 1].on_status # {}

----------------------------------------------------------------------------
(* The frame of the single-task operations of the Task Store *)

LogFiles == {"task.log"}

\* what start, complete, fail, cancel and rerun on task id return, for every
\* argument a caller may pass
TransitionResults(id) ==
    {QueueService_start(Q, id, now) : now \in LaterTimes}
    \cup {QueueService_complete(Q, id, s, now) : s \in Statuses, now \in LaterTimes}
    \cup {QueueService_fail(Q, id, reason, now) : reason \in Reasons, now \in LaterTimes}
    \cup {QueueService_cancel(Q, id, req.reason, now, req.kill) :
             req \in CancelRequests, now \in LaterTimes}
    \cup {QueueService_rerun(Q, id)}

PatchResults(id) == {QueueService_update_metadata(Q, id, f) : f \in LogFiles}

\* r differs from the document in the record of task id at most, and not at
\* all if the operation was rejected
TouchesOnly(id, r) ==
    /\ Len(r.tasks) = Len(tasks)
    /\ \A i \in 1..Len(tasks) : tasks[i].id # id => r.tasks[i] = tasks[i]
    /\ ~r.ok => r.tasks = tasks

\* C27: start, complete, fail, cancel, rerun and a metadata patch on task X,
\* accepted or rejected, leave the record of every other task unchanged; a
\* metadata patch also leaves the status of X unchanged.
C27_OtherTasksUnchanged ==
    \A id \in AnyIds :
        /\ \A r \in TransitionResults(id) \cup PatchResults(id) : TouchesOnly(id, r)
        /\ \A f \in LogFiles :
              LET r == QueueService_update_metadata(Q, id, f)
                  i == IndexOf(tasks, id)
              IN  IF i = 0 THEN ~r.ok
                  ELSE /\ r.ok
                       /\ r.tasks[i].status = tasks[i].status
                       /\ r.tasks[i].metadata.log_file_path = f

\* a fail was accepted on the second task while the first one is active
C27_Witness ==
    /\ last = Call("fail", TRUE, 0)
    /\ Len(tasks) = MaxTasks
    /\ tasks[1].status = "active"
    /\ tasks[2].status = "failed"
    /\ \E r \in PatchResults(tasks[2].id) :
          r.ok /\ r.tasks[2].status = "failed" /\ r.tasks[1] = tasks[1]

----------------------------------------------------------------------------
(* The Template Store during execution *)

\* C30: start_workflow, run_task and auto_chain never write the Template
\* Store: no step of the orchestrator changes the template document, however
\* the chain ends.
C30_TemplatesReadOnlyDuringExecution == [][templates' = templates]_vars

\* a chain has run to its end: the first task completed, a successor was
\* created and finished, and the template still holds the transition taken
C30_Witness ==
    /\ stack = <<>>
    /\ Len(tasks) >= 2
    /\ tasks[1].status = "completed"
    /\ tasks[2].status \in {"completed", "failed"}
    /\ tasks[2].metadata.workflow_name = "feature"
    /\ should_auto_chain(templates, "feature", tasks[1].metadata.workflow_step,
                         tasks[1].result)

----------------------------------------------------------------------------
(* Properties of the demonstration TaskManager *)

\* what a new TaskManager on the storage file holds
Reopened == TaskManager_init(arg)

Shown(task) ==
    [id |-> task.id, title |-> task.title,
     description |-> task.description, status |-> task.status]

SameTasks(a, b) ==
    /\ Len(a) = Len(b)
    /\ \A i \in 1..Len(a) : Shown(a[i]) = Shown(b[i])

\* C31: after any sequence of add_task, complete_task and delete_task, a new
\* TaskManager opened on the same storage file holds the same tasks in the
\* same order with the same id, title, description and status.
C31_ReopenedManagerHoldsSameTasks ==
    callers # <<>> =>
        /\ ~Reopened.raised
        /\ SameTasks(Reopened.manager.tasks, Manager.tasks)

\* add_task has saved a title with a "|" in it and the file reads back as
\* another title
C31_Witness ==
    /\ callers # <<>>
    /\ last.op = "add_task"
    /\ Pipe \in {Manager.tasks[Len(Manager.tasks)].title[k] :
                    k \in 1..Len(Manager.tasks[Len(Manager.tasks)].title)}
    /\ ~Reopened.raised
    /\ Len(Reopened.manager.tasks) = Len(Manager.tasks)
    /\ Reopened.manager.tasks[Len(Manager.tasks)].title
           # Manager.tasks[Len(Manager.tasks)].title

\* C40: all stored tasks have pairwise distinct ids, whatever was added,
\* completed, deleted or re-opened before
C40_StoredIdsDistinct ==
    callers # <<>> =>
        \A i, j \in 1..Len(Manager.tasks) :
            i # j => Manager.tasks[i].id # Manager.tasks[j].id

\* C40: a step that appends a task is add_task, and the id it hands out was
\* given to no earlier task
C40_AddHandsOutUnusedId ==
    (/\ callers # <<>>
     /\ callers' # <<>>
     /\ Len(callers'[1].tasks) = Len(Manager.tasks) + 1)
        => callers'[1].tasks[Len(callers'[1].tasks)].id \notin ret

\* C40: after any sequence of add_task, complete_task, delete_task and
\* re-opening, the stored ids are pairwise distinct and add_task never hands
\* out an id that was given to an earlier task, deleted ones included.
C40_IdsDistinctAndNeverReused ==
    [](C40_StoredIdsDistinct) /\ [][C40_AddHandsOutUnusedId]_vars

\* add_task has handed out an id again: the counter stands at or below an id
\* that an earlier add_task returned
C40_Witness ==
    /\ callers # <<>>
    /\ last.op = "add_task"
    /\ \E id \in ret : id >= Manager.next_id

----------------------------------------------------------------------------
(* Properties of the orchestrator while an operator uses the command       *)
(* surface                                                                 *)

\* auto_chain adds the successor in this step
CreatesSuccessor ==
    /\ Running("auto_chain", "begin")
    /\ Len(tasks') = Len(tasks) + 1

\* C32: a successor is created only for a predecessor whose persisted status
\* is completed with the result that selected the transition
C32_SuccessorOnlyOfCompletedTask ==
    CreatesSuccessor =>
        /\ Known(Top)
        /\ TaskOf(Top).status = "completed"
        /\ TaskOf(Top).result = Top.result.status

\* C32: a task cancelled while it executes stays cancelled through the rest
\* of run_task
C32_CancelledStaysCancelled ==
    \A i \in 1..Len(tasks) :
        (stack # <<>> /\ tasks[i].status = "cancelled")
            => tasks'[i].status = "cancelled"

\* C32: a successor task is created only for a completed predecessor; when a
\* cancel races the complete, run_task creates no successor and the task
\* stays cancelled.
C32_NoSuccessorAfterCancel ==
    [][C32_SuccessorOnlyOfCompletedTask /\ C32_CancelledStaysCancelled]_vars

\* the first task was cancelled while it executed, and its run_task went on
\* to chain
C32_Witness ==
    /\ Len(tasks) = 2
    /\ tasks[1].status = "cancelled"
    /\ tasks[1].started # NoTime
    /\ tasks[2].metadata.workflow_step = 1
    /\ stack # <<>>
    /\ stack[1].task_id = tasks[1].id

----------------------------------------------------------------------------
(* Properties of the orchestrator that keeps running *)

Unfinished(id) ==
    /\ IndexOf(tasks, id) # 0
    /\ tasks[IndexOf(tasks, id)].status \in {"pending", "active"}

\* the top-level call returns in this step
TopLevelReturns == stack # <<>> /\ stack' = <<>>

\* C33: when the top-level call returns, no task of the chain is still
\* pending or active
C33_NoneUnfinishedAtReturn ==
    TopLevelReturns => \A id \in TaskIds : ~Unfinished(id)'

\* C33: every task created by start_workflow(execute=true) or by auto_chain
\* eventually reaches completed or failed, and none of them is pending or
\* active when the top-level call returns, also when the next step's agent
\* does not resolve.
C33_ChainTasksReachCompletedOrFailed ==
    /\ \A id \in TaskIds : (stack # <<>> /\ Unfinished(id)) ~> ~Unfinished(id)
    /\ [][C33_NoneUnfinishedAtReturn]_vars

\* the chain has returned and left the successor pending: its agent is not
\* in the registry
C33_Witness ==
    /\ stack = <<>>
    /\ Len(tasks) = 2
    /\ tasks[1].status = "completed"
    /\ tasks[2].status = "pending"
    /\ tasks[2].assigned_agent \notin agents


\* the template that is run
Feature == templates["feature"]

\* the graph of a template: an edge from step i to step j (positions in the
\* list) when a transition of i has auto_chain set and names the agent of j,
\* j being the first step of that agent
ChainEdges(t) ==
    {e \in (1..Len(t.steps)) \X (1..Len(t.steps)) :
        \E s \in DOMAIN t.steps[e[1]].on_status :
            LET tr == t.steps[e[1]].on_status[s] IN
            /\ tr.auto_chain
            /\ t.steps[e[2]].agent = tr.next_step
            /\ \A k \in 1..(e[2] - 1) : t.steps[k].agent # tr.next_step}

\* the pairs of steps joined by a path of at most n + 1 edges
RECURSIVE Paths(_, _)
Paths(E, n) ==
    IF n = 0 THEN E
    ELSE LET P == Paths(E, n - 1) IN
         P \cup {<<p[1][1], p[2][2]>> : p \in {q \in P \X E : q[1][2] = q[2][1]}}

Acyclic(t) ==
    \A i \in 1..Len(t.steps) : <<i, i>> \notin Paths(ChainEdges(t), Len(t.steps))

\* C34: start_workflow on a template with an acyclic graph returns
C34_AcyclicTerminates ==
    (stack # <<>> /\ Acyclic(Feature)) ~> (stack = <<>>)

\* C34: and creates at most as many tasks as the template has steps
C34_AtMostOneTaskPerStep ==
    Acyclic(Feature) => Len(tasks) <= Len(Feature.steps)

\* C34: for a template whose auto-chaining transitions form an acyclic graph
\* over its steps, start_workflow terminates whatever statuses the executions
\* return and creates at most as many tasks as the template has steps; more
\* tasks than steps are created only when the graph has a cycle.
C34_AcyclicTemplateTerminates ==
    C34_AcyclicTerminates /\ [](C34_AtMostOneTaskPerStep)

\* a chain over an acyclic two-step template has returned with one task for
\* each step
C34_Witness ==
    /\ stack = <<>>
    /\ Acyclic(Feature)
    /\ Len(Feature.steps) = 2
    /\ Len(tasks) = 2
    /\ tasks[2].status = "completed"

----------------------------------------------------------------------------
(* Workflow position of the tasks of a workflow *)

\* the step a task's metadata points at is a step of its agent
AtStepOfItsAgent(t) ==
    /\ HasWorkflow(templates, t.metadata.workflow_name)
    /\ HasStep(WorkflowService_get(templates, t.metadata.workflow_name),
               t.metadata.workflow_step)
    /\ get_step(WorkflowService_get(templates, t.metadata.workflow_name),
                t.metadata.workflow_step).agent = t.assigned_agent

C35_TasksAtStepOfTheirAgent ==
    \A i \in 1..Len(tasks) : AtStepOfItsAgent(tasks[i])

\* the successor created in this step stands at the lowest step of its agent
C35_SuccessorAtLowestStep ==
    CreatesSuccessor =>
        LET next == tasks'[Len(tasks')]
            steps == WorkflowService_get(templates, next.metadata.workflow_name).steps
        IN  /\ next.assigned_agent =
                  TransitionOf(TaskOf(Top), Top.result.status).next_step
            /\ \A k \in 0..(Len(steps) - 1) :
                  steps[k + 1].agent = next.assigned_agent
                      => next.metadata.workflow_step <= k

\* C35: for every task created by start_workflow or auto_chain, while the
\* template is not edited, the step at index workflow_step of the template
\* named workflow_name has the task's assigned_agent as agent; when several
\* steps share the agent named by next_step, the successor's workflow_step
\* is the lowest index of such a step.
C35_WorkflowStepNamesAssignedAgent ==
    [](C35_TasksAtStepOfTheirAgent) /\ [][C35_SuccessorAtLowestStep]_vars

\* two steps share the agent the first one chains to, and the successor was
\* created at the first of them
C35_Witness ==
    /\ Len(tasks) = 2
    /\ Len(Feature.steps) = 2
    /\ Feature.steps[1].agent = Feature.steps[2].agent
    /\ tasks[2].assigned_agent = Feature.steps[2].agent
    /\ tasks[2].metadata.workflow_step = 0

----------------------------------------------------------------------------
(* The per-agent side record of the Task Store *)

ActiveTasksOf(a) ==
    {i \in 1..Len(tasks) :
        tasks[i].assigned_agent = a /\ tasks[i].status = "active"}

RecordedActive(a) ==
    a \in DOMAIN agent_status /\ agent_status[a].status = "active"

\* C36: in every state reachable by add, start, complete, fail, cancel and
\* rerun, an agent's status is active if and only if at least one task
\* assigned to that agent is active, and its current task then names an
\* active task of that agent.
C36_AgentStatusMatchesTasks ==
    \A a \in Agents :
        /\ RecordedActive(a) <=> ActiveTasksOf(a) # {}
        /\ RecordedActive(a) =>
              \E i \in ActiveTasksOf(a) : tasks[i].id = agent_status[a].current_task

\* two tasks of one agent were active and one of them has completed: the
\* agent is recorded idle while the other task is active
C36_Witness ==
    /\ last.op = "complete"
    /\ last.ok
    /\ \E a \in Agents :
          /\ a \in DOMAIN agent_status
          /\ agent_status[a].status = "idle"
          /\ ActiveTasksOf(a) # {}

----------------------------------------------------------------------------
(* Completion with a status or a workflow context that does not resolve *)

\* the task's workflow, its step or the step's transition for the status is
\* not there
Unresolvable(t, status) == ~DeclaresTransition(t, status)

\* run_task, taking its last step, completes the task it ran with the status
\* as result, and adds nothing
C37_CompletedWithStatus ==
    (/\ Finishing
     /\ stack' # stack
     /\ SucceededWithStatus
     /\ Known(Top)
     /\ TaskOf(Top).status = "active"
     /\ Unresolvable(TaskOf(Top), Top.result.status))
        => /\ Len(tasks') = Len(tasks)
           /\ tasks'[IndexOf(tasks, Top.task_id)].status = "completed"
           /\ tasks'[IndexOf(tasks, Top.task_id)].result = Top.result.status

\* auto_chain, taking its step, leaves the store as it is
C37_NoSuccessor ==
    (/\ Running("auto_chain", "begin")
     /\ stack' # stack
     /\ Known(Top)
     /\ Unresolvable(TaskOf(Top), Top.result.status))
        => /\ tasks' = tasks
           /\ stack' = Returns

\* a completed task is not touched again
C37_StaysCompleted ==
    \A i \in 1..Len(tasks) :
        tasks[i].status = "completed" => tasks'[i] = tasks[i]

\* C37: if a task completes with a status that has no entry in its step's
\* on_status table, or with a workflow context that no longer resolves
\* (unknown workflow name, step index out of range), the task stays completed
\* with that status as result and auto_chain creates no successor task.
C37_UnresolvedCompletionEndsChain ==
    [][C37_CompletedWithStatus /\ C37_NoSuccessor /\ C37_StaysCompleted]_vars

\* the template was deleted while the task ran: the task is completed with
\* its status and auto_chain has returned without a successor
C37_Witness ==
    /\ Len(tasks) = 1
    /\ tasks[1].status = "completed"
    /\ tasks[1].result = "READY_FOR_DEVELOPMENT"
    /\ tasks[1].auto_chain
    /\ ~HasWorkflow(templates, tasks[1].metadata.workflow_name)
    /\ Len(stack) = 2
    /\ Top.fn = "auto_chain"
    /\ Top.pc = "return"

----------------------------------------------------------------------------
(* The statuses shown to the agent and what chaining does *)

Listed(status, lines) == \E line \in lines : line[1] = status

\* C38: every status of a step's on_status table is listed in exactly one
\* group, under halt iff its transition has auto_chain false or next_step
\* null
C38_ListedInOneGroup ==
    HasWorkflow(templates, "feature") =>
        \A i \in 1..Len(Feature.steps) :
            LET step == Feature.steps[i]
                prompt == format_statuses_for_prompt(step)
            IN  \A s \in DOMAIN step.on_status :
                    /\ Listed(s, prompt.halt_statuses)
                          <=> (~step.on_status[s].auto_chain
                               \/ step.on_status[s].next_step = NULL)
                    /\ Listed(s, prompt.completion_statuses)
                          <=> ~Listed(s, prompt.halt_statuses)

\* C38: in a template that validates cleanly, auto_chain on a task with
\* auto_chain set creates a successor iff the status is listed as a
\* completion status of the task's step
C38_ChainsIffListedAsCompletion ==
    (/\ Running("auto_chain", "begin")
     /\ stack' # stack
     /\ Known(Top)
     /\ TaskOf(Top).auto_chain
     /\ validate_template(Feature) = {})
        => (CreatesSuccessor <=>
               Listed(Top.result.status,
                      format_statuses_for_prompt(
                          get_step(Feature, TaskOf(Top).metadata.workflow_step)
                      ).completion_statuses))

\* C38: the halt / completion classification shown to the agent agrees with
\* what chaining does.
C38_PromptAgreesWithChaining ==
    [](C38_ListedInOneGroup) /\ [][C38_ChainsIffListedAsCompletion]_vars

\* auto_chain has returned without a successor for a status that the prompt
\* of a cleanly validating template lists as a completion status
C38_Witness ==
    /\ Len(stack) = 2
    /\ Top.fn = "auto_chain"
    /\ Top.pc = "return"
    /\ Len(tasks) = 1
    /\ tasks[1].auto_chain
    /\ tasks[1].status = "completed"
    /\ validate_template(Feature) = {}
    /\ Listed(tasks[1].result,
              format_statuses_for_prompt(Feature.steps[1]).completion_statuses)

----------------------------------------------------------------------------
(* start_workflow on what does not resolve *)

ServicesSet == arg.queue_service /\ arg.agent_service

\* C39: start_workflow returns None and leaves the task store unchanged (no
\* task created, nothing executed) when the template id does not resolve,
\* the template has no steps, the first step's agent does not resolve, or
\* the services are not configured.
C39_StartWorkflowReturnsNone ==
    [][\A w \in WorkflowNames, e \in Enhancements, ac \in BOOLEAN, ex \in BOOLEAN,
          m \in ModelOverrides :
           (/\ WorkflowService_start_workflow(w, e, ac, ex, m)
            /\ ~ServicesSet \/ ~Resolvable(w))
           => /\ tasks' = tasks
              /\ agent_status' = agent_status
              /\ stack' = <<>>
              /\ last' = Call("start_workflow", FALSE, 0)]_vars

\* start_workflow has returned None on a WorkflowService whose services were
\* never set, although the template and its first agent resolve
C39_Witness ==
    /\ arg = NoServices
    /\ last = Call("start_workflow", FALSE, 0)
    /\ Resolvable("feature")
    /\ tasks = <<>>
    /\ stack = <<>>

====
